---- MODULE Spec2Model ----
(***************************************************************************)
(* A model of the NSFN notation container of nsfp (src/nsfp/notation.py):  *)
(* the packed raw-frame codec, the binary layout, the JSON document, and   *)
(* write / read of the framed container file; and of the extraction of     *)
(* notation from an emulated NSF (src/nsfp/extract.py): the pitch tables,  *)
(* the nearest-note search, the channel state machines and the track loop. *)
(*                                                                         *)
(* Python values are modelled as follows.                                  *)
(*   - bytes            : a sequence of integers 0..255                    *)
(*   - Optional[T]      : None is <<>>, a present value v is <<v>>         *)
(*   - dict (JSON)      : a function whose DOMAIN is the set of keys       *)
(*   - an exception     : a record whose err field names the exception     *)
(*   - object identity  : channels live in a heap indexed by object id     *)
(*   - list (pitch table): a function on 0..96                             *)
(***************************************************************************)
EXTENDS Integers, Sequences, FiniteSets, TLC

VARIABLES heap, nf, disk, result, pc, codec, lookup, ex

vars == <<heap, nf, disk, result, pc, codec, lookup, ex>>

\* ---------------------------------------------------------------- bounds

\* Longest frame sequence handed to pack_frames in the codec specification.
MaxLen == 2

\* Frames the emulator runs in one extraction, over all its tracks.
MaxFrames == 3

\* Most objects a client puts into one NotationFile: SongData objects,
\* ChannelData entries of the songs' channel lists, and a Metadata object
\* other than the default one.
MaxObjs == 4

\* --------------------------------------------------------------- helpers

None == <<>>

Some(v) == <<v>>

IsNone(o) == o = <<>>

Get(d, k, default) == IF k \in DOMAIN d THEN d[k] ELSE default

RECURSIVE Concat(_)
Concat(ss) == IF ss = <<>> THEN <<>> ELSE Head(ss) \o Concat(Tail(ss))

RECURSIVE SumSeq(_)
SumSeq(s) == IF s = <<>> THEN 0 ELSE Head(s) + SumSeq(Tail(s))

Pow256(k) == CASE k = 0 -> 1 [] k = 1 -> 256 [] k = 2 -> 65536 [] k = 3 -> 16777216

\* ------------------------------------------------------------- constants

MAGIC == <<78, 83, 70, 78>>

VERSION == 1

HEADER_SIZE == 12

ChannelTypes ==
    {"square", "triangle", "noise", "dpcm", "vrc6_square", "vrc6_saw",
     "vrc7_fm", "fds", "mmc5_square", "mmc5_dpcm", "n163_wave", "s5b_square"}

STRUCT_FORMATS ==
    [t \in ChannelTypes |->
        CASE t = "square"      -> <<"H", "B", "B">>
          [] t = "triangle"    -> <<"H", "B">>
          [] t = "noise"       -> <<"B", "B", "B">>
          [] t = "dpcm"        -> <<"H", "i", "B", "B", "B", "B">>
          [] t = "vrc6_square" -> <<"H", "B", "B">>
          [] t = "vrc6_saw"    -> <<"H", "B">>
          [] t = "vrc7_fm"     -> <<"H", "B", "B", "B", "B", "B", "b">>
          [] t = "fds"         -> <<"H", "B", "B", "H", "B", "B">>
          [] t = "mmc5_square" -> <<"H", "B", "B">>
          [] t = "mmc5_dpcm"   -> <<"B">>
          [] t = "n163_wave"   -> <<"i", "B", "B", "B", "B">>
          [] t = "s5b_square"  -> <<"H", "B", "B", "B", "B", "H", "B", "B">>]

\* ------------------------------------------------- struct (little-endian)

\* Width in bytes of one format code ("<": standard sizes, no padding).
CodeSize(c) ==
    CASE c = "H" -> 2 [] c = "B" -> 1 [] c = "b" -> 1 [] c = "i" -> 4 [] c = "I" -> 4

CodeSigned(c) == c \in {"b", "i"}

\* The range struct.pack accepts for a code; outside it, struct.error.
FitsCode(c, v) ==
    CASE c = "H" -> v >= 0 /\ v <= 65535
      [] c = "B" -> v >= 0 /\ v <= 255
      [] c = "b" -> v >= -128 /\ v <= 127
      [] c = "i" -> v >= -2147483647 - 1 /\ v <= 2147483647
      [] c = "I" -> v >= 0

calcsize(fmt) == SumSeq([j \in 1..Len(fmt) |-> CodeSize(fmt[j])])

\* As PackValue, with a 16-bit field written in one byte.
PackValueNarrow(c, v) ==
    [k \in 1..(IF c = "H" THEN 1 ELSE CodeSize(c)) |-> (v \div Pow256(k - 1)) % 256]

\* Two's-complement little-endian bytes of v in the width of code c.
PackValue(c, v) == [k \in 1..CodeSize(c) |-> (v \div Pow256(k - 1)) % 256]

RECURSIVE LittleEndian(_, _)
LittleEndian(bs, signed) ==
    IF Len(bs) = 1
    THEN IF signed /\ bs[1] >= 128 THEN bs[1] - 256 ELSE bs[1]
    ELSE bs[1] + 256 * LittleEndian(Tail(bs), signed)

\* As UnpackValue, with the one-byte signed code read as unsigned.
UnpackValueByteUnsigned(c, bs) == LittleEndian(bs, c = "i")

UnpackValue(c, bs) == LittleEndian(bs, CodeSigned(c))

FieldOffset(fmt, j) == SumSeq([i \in 1..(j - 1) |-> CodeSize(fmt[i])])

\* struct.pack(fmt, *f): struct.error on a wrong argument count or a value
\* outside its field's range.
struct_pack(fmt, f) ==
    IF Len(f) = Len(fmt) /\ \A j \in 1..Len(fmt) : FitsCode(fmt[j], f[j])
    THEN [err |-> "", bytes |-> Concat([j \in 1..Len(fmt) |-> PackValue(fmt[j], f[j])])]
    ELSE [err |-> "struct.error", bytes |-> <<>>]

\* struct.unpack(fmt, bs): struct.error unless bs has exactly calcsize(fmt) bytes.
struct_unpack(fmt, bs) ==
    IF Len(bs) = calcsize(fmt)
    THEN [err |-> "",
          frame |-> [j \in 1..Len(fmt) |->
                        UnpackValue(fmt[j],
                            SubSeq(bs, FieldOffset(fmt, j) + 1,
                                       FieldOffset(fmt, j) + CodeSize(fmt[j])))]]
    ELSE [err |-> "struct.error", frame |-> <<>>]

FRAME_SIZES == [t \in ChannelTypes |-> calcsize(STRUCT_FORMATS[t])]

\* ----------------------------------------------------------- pack / unpack

pack_frames(struct_format, frames) ==
    IF struct_format \notin DOMAIN STRUCT_FORMATS
    THEN [err |-> "KeyError", bytes |-> <<>>]
    ELSE LET fmt == STRUCT_FORMATS[struct_format]
             parts == [k \in 1..Len(frames) |-> struct_pack(fmt, frames[k])]
         IN IF \E k \in 1..Len(frames) : parts[k].err /= ""
            THEN [err |-> "struct.error", bytes |-> <<>>]
            ELSE [err |-> "", bytes |-> Concat([k \in 1..Len(frames) |-> parts[k].bytes])]

\* range(0, len(data), size): one slice per started block; the last slice is
\* short when len(data) is no multiple of size, and struct.unpack then raises.
unpack_frames(struct_format, data) ==
    IF struct_format \notin DOMAIN STRUCT_FORMATS
    THEN [err |-> "KeyError", frames |-> <<>>]
    ELSE LET fmt == STRUCT_FORMATS[struct_format]
             size == calcsize(fmt)
             n == (Len(data) + size - 1) \div size
             slice(k) == SubSeq(data, (k - 1) * size + 1,
                                IF k * size <= Len(data) THEN k * size ELSE Len(data))
             parts == [k \in 1..n |-> struct_unpack(fmt, slice(k))]
         IN IF \E k \in 1..n : parts[k].err /= ""
            THEN [err |-> "struct.error", frames |-> <<>>]
            ELSE [err |-> "", frames |-> [k \in 1..n |-> parts[k].frame]]

\* ------------------------------------------------------- expansion chips

\* (bit, name) pairs in table order.
EXPANSION_CHIPS ==
    << <<1, "VRC6">>, <<2, "VRC7">>, <<4, "FDS">>,
       <<8, "MMC5">>, <<16, "N163">>, <<32, "S5B">> >>

\* mask & bit, for a bit that is a power of two.
BitAnd(mask, bit) == IF (mask \div bit) % 2 = 1 THEN bit ELSE 0

expansion_chip_list(mask) ==
    LET set(p) == BitAnd(mask, p[1]) /= 0
        kept == SelectSeq(EXPANSION_CHIPS, set)
    IN [k \in 1..Len(kept) |-> kept[k][2]]

\* ------------------------------------------------------------ data classes

NoteEvent(frame, event, note, octave, pitch, volume, duty_cycle, instrument) ==
    [frame |-> frame, event |-> event, note |-> note, octave |-> octave,
     pitch |-> pitch, volume |-> volume, duty_cycle |-> duty_cycle,
     instrument |-> instrument]

RawDataRef(byte_offset, byte_length, frame_size, struct_format) ==
    [byte_offset |-> byte_offset, byte_length |-> byte_length,
     frame_size |-> frame_size, struct_format |-> struct_format]

ChannelData(channel_id, channel_type, channel_name, notes, raw_data_ref, raw_frames) ==
    [channel_id |-> channel_id, channel_type |-> channel_type,
     channel_name |-> channel_name, notes |-> notes,
     raw_data_ref |-> raw_data_ref, raw_frames |-> raw_frames]

\* channels: object ids into the heap (write) or ChannelData values (read).
SongData(index, name, num_frames, pattern_length, channels) ==
    [index |-> index, name |-> name, num_frames |-> num_frames,
     pattern_length |-> pattern_length, channels |-> channels]

Metadata(title, artist, copyright, region, frame_rate, expansion, expansion_chips) ==
    [title |-> title, artist |-> artist, copyright |-> copyright,
     region |-> region, frame_rate |-> frame_rate, expansion |-> expansion,
     expansion_chips |-> expansion_chips]

DefaultPatternLength == 256

DefaultFrameRate == 60

DefaultMetadata == Metadata("", "", "", "ntsc", DefaultFrameRate, 0, None)

NotationFile(metadata, songs) == [metadata |-> metadata, songs |-> songs]

\* ---------------------------------------------------------- JSON <-> data

note_to_dict(n) ==
    [frame |-> n.frame, event |-> n.event, note |-> n.note, octave |-> n.octave,
     pitch |-> n.pitch, volume |-> n.volume, duty_cycle |-> n.duty_cycle,
     instrument |-> n.instrument]

NoteRequiredKeys == {"frame", "event", "note", "octave", "pitch", "volume"}

\* As note_from_dict, with the instrument not read back.
note_from_dict_NoInstrument(d) ==
    IF NoteRequiredKeys \subseteq DOMAIN d
    THEN [err |-> "",
          note |-> NoteEvent(d.frame, d.event, d.note, d.octave, d.pitch, d.volume,
                             Get(d, "duty_cycle", 0), None)]
    ELSE [err |-> "KeyError", note |-> <<>>]

\* d["frame"] ... raise KeyError on a missing key; duty_cycle and instrument
\* are read with d.get.
note_from_dict(d) ==
    IF NoteRequiredKeys \subseteq DOMAIN d
    THEN [err |-> "",
          note |-> NoteEvent(d.frame, d.event, d.note, d.octave, d.pitch, d.volume,
                             Get(d, "duty_cycle", 0), Get(d, "instrument", None))]
    ELSE [err |-> "KeyError", note |-> <<>>]

\* key: id(ch). binary_layout: a function from object ids to layout entries.
channel_to_dict(ch, key, binary_layout) ==
    LET ref == IF key \in DOMAIN binary_layout
               THEN Some([byte_offset |-> binary_layout[key].byte_offset,
                          byte_length |-> binary_layout[key].byte_length,
                          frame_size |-> binary_layout[key].frame_size,
                          struct_format |-> binary_layout[key].struct_format])
               ELSE None
    IN [channel_id |-> ch.channel_id, channel_type |-> ch.channel_type,
        channel_name |-> ch.channel_name,
        notes |-> [k \in 1..Len(ch.notes) |-> note_to_dict(ch.notes[k])],
        raw_data_ref |-> ref]

RefRequiredKeys == {"byte_offset", "byte_length", "frame_size", "struct_format"}

ChannelRequiredKeys == {"channel_id", "channel_type", "channel_name"}

channel_from_dict(d) ==
    LET r == Get(d, "raw_data_ref", None)
        refErr == ~IsNone(r) /\ ~(RefRequiredKeys \subseteq DOMAIN r[1])
        ref == IF IsNone(r) THEN None
               ELSE Some(RawDataRef(r[1].byte_offset, r[1].byte_length,
                                    r[1].frame_size, r[1].struct_format))
        nds == Get(d, "notes", <<>>)
        ns == [k \in 1..Len(nds) |-> note_from_dict(nds[k])]
    IN IF refErr \/ ~(ChannelRequiredKeys \subseteq DOMAIN d)
          \/ \E k \in 1..Len(nds) : ns[k].err /= ""
       THEN [err |-> "KeyError", ch |-> <<>>]
       ELSE [err |-> "",
             ch |-> ChannelData(d.channel_id, d.channel_type, d.channel_name,
                                [k \in 1..Len(nds) |-> ns[k].note], ref, None)]

\* ----------------------------------------------------------- binary layout

\* `if ch.raw_frames`: neither None nor an empty list.
Truthy(raw_frames) == ~IsNone(raw_frames) /\ raw_frames[1] /= <<>>

\* The songs' channels in walk order (songs in order, channels in order), as
\* object ids.
Walk(data) == Concat([s \in 1..Len(data.songs) |-> data.songs[s].channels])

\* layout[id(ch)] = {...}: set or overwrite the entry of object `key`.
DictSet(layout, key, entry) ==
    [k \in DOMAIN layout \cup {key} |-> IF k = key THEN entry ELSE layout[k]]

\* As NextOffset, with the offset never advanced.
NextOffsetStuck(offset, blob) == offset

\* offset += len(blob)
NextOffset(offset, blob) == offset + Len(blob)

\* The loop of compute_binary_layout over the remaining channels `walk`, from
\* the state (layout, parts, offset) of the loop; h is the heap.
RECURSIVE LayoutLoop(_, _, _, _, _)
LayoutLoop(h, walk, layout, parts, offset) ==
    IF walk = <<>>
    THEN [err |-> "", layout |-> layout, blob |-> parts]
    ELSE LET key == Head(walk)
             ch == h[key]
         IN IF Truthy(ch.raw_frames) /\ ch.channel_type \in DOMAIN STRUCT_FORMATS
            THEN LET sf == ch.channel_type
                     packed == pack_frames(sf, ch.raw_frames[1])
                     entry == [byte_offset |-> offset,
                               byte_length |-> Len(packed.bytes),
                               frame_size |-> FRAME_SIZES[sf],
                               struct_format |-> sf]
                 IN IF packed.err /= ""
                    THEN [err |-> packed.err, layout |-> layout, blob |-> <<>>]
                    ELSE LayoutLoop(h, Tail(walk), DictSet(layout, key, entry),
                                    parts \o packed.bytes,
                                    NextOffset(offset, packed.bytes))
            ELSE LayoutLoop(h, Tail(walk), layout, parts, offset)

compute_binary_layout(h, data) == LayoutLoop(h, Walk(data), <<>>, <<>>, 0)

\* --------------------------------------------------------- JSON document

to_json_dict(h, data, binary_layout) ==
    LET chips == IF IsNone(data.metadata.expansion_chips)
                 THEN expansion_chip_list(data.metadata.expansion)
                 ELSE data.metadata.expansion_chips[1]
        song_dict(song) ==
            [index |-> song.index, name |-> song.name,
             num_frames |-> song.num_frames,
             pattern_length |-> song.pattern_length,
             channels |-> [c \in 1..Len(song.channels) |->
                              channel_to_dict(h[song.channels[c]], song.channels[c],
                                              binary_layout)]]
    IN [format |-> "nsfn",
        version |-> VERSION,
        metadata |-> [title |-> data.metadata.title,
                      artist |-> data.metadata.artist,
                      copyright |-> data.metadata.copyright,
                      region |-> data.metadata.region,
                      frame_rate |-> data.metadata.frame_rate,
                      expansion |-> data.metadata.expansion,
                      expansion_chips |-> Some(chips)],
        songs |-> [s \in 1..Len(data.songs) |-> song_dict(data.songs[s])]]

\* binary_data[start:end] with 0 <= start <= end: clamped to the data.
Slice(data, start, end) ==
    SubSeq(data, start + 1, IF end <= Len(data) THEN end ELSE Len(data))

\* One iteration of the channel loop of from_json_dict.
ChannelFromJson(cd, binary_data) ==
    LET c == channel_from_dict(cd)
    IN IF c.err /= "" THEN c
       ELSE IF ~IsNone(c.ch.raw_data_ref) /\ binary_data /= <<>>
       THEN LET ref == c.ch.raw_data_ref[1]
                u == unpack_frames(ref.struct_format,
                                   Slice(binary_data, ref.byte_offset,
                                         ref.byte_offset + ref.byte_length))
            IN IF u.err /= "" THEN [err |-> u.err, ch |-> <<>>]
               ELSE [err |-> "", ch |-> [c.ch EXCEPT !.raw_frames = Some(u.frames)]]
       ELSE c

\* The first exception raised in a sequence of results, "" when none.
FirstErr(rs) ==
    IF \E k \in 1..Len(rs) : rs[k].err /= ""
    THEN rs[CHOOSE k \in 1..Len(rs) :
                rs[k].err /= "" /\ \A j \in 1..(k - 1) : rs[j].err = ""].err
    ELSE ""

SongRequiredKeys == {"index", "name", "num_frames"}

\* One iteration of the song loop of from_json_dict.
SongFromJson(sd, binary_data) ==
    LET cds == Get(sd, "channels", <<>>)
        cs == [k \in 1..Len(cds) |-> ChannelFromJson(cds[k], binary_data)]
    IN IF FirstErr(cs) /= "" THEN [err |-> FirstErr(cs), song |-> <<>>]
       ELSE IF ~(SongRequiredKeys \subseteq DOMAIN sd)
       THEN [err |-> "KeyError", song |-> <<>>]
       ELSE [err |-> "",
             song |-> SongData(sd.index, sd.name, sd.num_frames,
                               Get(sd, "pattern_length", DefaultPatternLength),
                               [k \in 1..Len(cds) |-> cs[k].ch])]

\* md.get("expansion_chips"): None when the key is absent.
ChipsFromJson(md) == Get(md, "expansion_chips", None)

from_json_dict(d, binary_data) ==
    LET md == Get(d, "metadata", <<>>)
        metadata == Metadata(Get(md, "title", ""), Get(md, "artist", ""),
                             Get(md, "copyright", ""), Get(md, "region", "ntsc"),
                             Get(md, "frame_rate", DefaultFrameRate),
                             Get(md, "expansion", 0), ChipsFromJson(md))
        sds == Get(d, "songs", <<>>)
        ss == [k \in 1..Len(sds) |-> SongFromJson(sds[k], binary_data)]
    IN IF FirstErr(ss) /= "" THEN [err |-> FirstErr(ss), value |-> None]
       ELSE [err |-> "",
             value |-> Some(NotationFile(metadata, [k \in 1..Len(sds) |-> ss[k].song]))]

\* ------------------------------------------------------- container file

\* A file is a sequence of cells, one per byte.  A byte written by the code
\* is [b |-> 0..255].  The JSON text is library output (json.dumps) and is
\* kept opaque: each character of it records its position in the text and
\* the first one the document the text denotes, so that json.loads can be
\* decided; the number of characters of a text is abstracted by JsonTextLen.
Cells(bytes) == [k \in 1..Len(bytes) |-> [b |-> bytes[k]]]

Bytes(cells) == [k \in 1..Len(cells) |-> cells[k].b]

JsonTextLen(doc) ==
    2 + Cardinality(DOMAIN doc) + SumSeq([k \in 1..Len(Get(doc, "songs", <<>>)) |->
            1 + Len(Get(Get(doc, "songs", <<>>)[k], "channels", <<>>))])

\* json.dumps(doc, separators=(",", ":")).encode("utf-8")
json_dumps(doc) ==
    [k \in 1..JsonTextLen(doc) |->
        IF k = 1 THEN [b |-> 123, at |-> 1, json |-> doc]
        ELSE [b |-> IF k = JsonTextLen(doc) THEN 125 ELSE 34, at |-> k]]

\* json.loads(cells.decode("utf-8")): the document when the cells are exactly
\* the text of one document, ValueError (JSONDecodeError, UnicodeDecodeError)
\* otherwise.
json_loads(cells) ==
    IF cells /= <<>> /\ "json" \in DOMAIN cells[1]
       /\ cells = json_dumps(cells[1].json)
    THEN [err |-> "", doc |-> cells[1].json]
    ELSE [err |-> "ValueError", doc |-> <<>>]

\* struct.unpack("<I", raw[at:at+4])[0], at counted from 0.
U32At(raw, at) == UnpackValue("I", Bytes(SubSeq(raw, at + 1, at + 4)))

\* As write, with the path opened for writing before the layout is computed:
\* a failure leaves an empty file behind.
write_OpenFirst(h, data) ==
    LET lay == compute_binary_layout(h, data)
        json_dict == to_json_dict(h, data, lay.layout)
        json_bytes == json_dumps(json_dict)
    IN IF lay.err /= ""
       THEN [err |-> lay.err, file |-> Some(<<>>)]
       ELSE [err |-> "",
             file |-> Some(Cells(MAGIC)
                           \o Cells(PackValue("I", VERSION))
                           \o Cells(PackValue("I", Len(json_bytes)))
                           \o json_bytes
                           \o Cells(PackValue("I", Len(lay.blob)))
                           \o Cells(lay.blob))]

\* write(path, data): the file's new content, or the exception raised before
\* the path is opened (no file content then: the path is left as it was).
write(h, data) ==
    LET lay == compute_binary_layout(h, data)
        json_dict == to_json_dict(h, data, lay.layout)
        json_bytes == json_dumps(json_dict)
    IN IF lay.err /= ""
       THEN [err |-> lay.err, file |-> None]
       ELSE [err |-> "",
             file |-> Some(Cells(MAGIC)
                           \o Cells(PackValue("I", VERSION))
                           \o Cells(PackValue("I", Len(json_bytes)))
                           \o json_bytes
                           \o Cells(PackValue("I", Len(lay.blob)))
                           \o Cells(lay.blob))]

\* NotationError and its subclasses: the errors the container defines.
NotationErrors ==
    {"NotationError", "InvalidMagicError", "UnsupportedVersionError",
     "TruncatedFileError"}

Raise(e) == [err |-> e, value |-> None]

\* As HeaderCheck, with the version checked before the magic.
HeaderCheckVersionFirst(raw) ==
    IF U32At(raw, 4) /= VERSION THEN "UnsupportedVersionError"
    ELSE IF Bytes(SubSeq(raw, 1, 4)) /= MAGIC THEN "InvalidMagicError"
    ELSE ""

\* The magic and version checks of read: the exception raised, "" when none.
HeaderCheck(raw) ==
    IF Bytes(SubSeq(raw, 1, 4)) /= MAGIC THEN "InvalidMagicError"
    ELSE IF U32At(raw, 4) /= VERSION THEN "UnsupportedVersionError"
    ELSE ""

\* As BinaryOverrun, off by one.
BinaryOverrunLax(bin_end, len) == bin_end > len + 1

\* bin_end > len(raw)
BinaryOverrun(bin_end, len) == bin_end > len

\* read(path) of a file holding the cells raw.
read(raw) ==
    IF Len(raw) < HEADER_SIZE THEN Raise("TruncatedFileError")
    ELSE IF HeaderCheck(raw) /= "" THEN Raise(HeaderCheck(raw))
    ELSE LET json_len == U32At(raw, 8)
             json_end == 12 + json_len
         IN IF json_end > Len(raw) THEN Raise("TruncatedFileError")
            ELSE LET parsed == json_loads(SubSeq(raw, 13, json_end))
                     bin_header_end == json_end + 4
                 IN IF parsed.err /= "" THEN Raise(parsed.err)
                    ELSE IF bin_header_end > Len(raw) THEN Raise("TruncatedFileError")
                    ELSE LET bin_len == U32At(raw, json_end)
                             bin_end == bin_header_end + bin_len
                         IN IF BinaryOverrun(bin_end, Len(raw))
                            THEN Raise("TruncatedFileError")
                            ELSE from_json_dict(parsed.doc,
                                     Bytes(Slice(raw, bin_header_end, bin_end)))

\* ------------------------------------------------------------- inputs

\* Field values at and inside the ends of each code's range, and one value
\* struct.pack rejects (column 5; every 32-bit value fits "i").
FieldSample(c, k) ==
    CASE c = "H" -> <<0, 1234, 65535, 256, -1>>[k]
      [] c = "B" -> <<0, 15, 255, 128, 256>>[k]
      [] c = "b" -> <<-128, -1, 127, 0, 128>>[k]
      [] c = "i" -> <<-2147483647 - 1, -100, 2147483647, 49152, -1>>[k]

\* Frame tuples of type t's arity: every field at column k, and the columns
\* rotated over the fields.
UniformFrame(t, k) ==
    [j \in 1..Len(STRUCT_FORMATS[t]) |-> FieldSample(STRUCT_FORMATS[t][j], k)]

RotatedFrame(t, k) ==
    [j \in 1..Len(STRUCT_FORMATS[t]) |->
        FieldSample(STRUCT_FORMATS[t][j], ((k + j) % 4) + 1)]

CodecFrames(t) ==
    {UniformFrame(t, k) : k \in 1..5} \cup {RotatedFrame(t, k) : k \in 1..4}

\* Channels a client builds: id, name and two frames of each type.
BuildId(t) == CASE t = "square" -> 0 [] t = "triangle" -> 2 [] t = "s5b_square" -> 26

BuildName(t) ==
    CASE t = "square" -> "Square 1" [] t = "triangle" -> "Triangle"
      [] t = "s5b_square" -> "S5B Square 1"

BuildFrame(t, k) ==
    CASE t = "square" -> << <<100, 10, 1>>, <<200, 11, 2>> >>[k]
      [] t = "triangle" -> << <<300, 1>>, <<400, 0>> >>[k]

Frames(t, n) == Some([k \in 1..n |-> BuildFrame(t, k)])

TwoNotes ==
    <<NoteEvent(0, "trigger", 45, 3, 9, 15, 2, None),
      NoteEvent(10, "release", 45, 3, 9, 0, 2, Some(3))>>

\* An s5b_square frame with the period the extractor treats as invalid (-1).
S5BSentinelFrame == <<-1, 12, 7, 15, 0, 2000, 8, 1>>

NewChannel(t, notes, raw_frames) ==
    ChannelData(BuildId(t), t, BuildName(t), notes, None, raw_frames)

\* The channels a client constructs: with and without notes; raw_frames
\* absent, empty, of one frame and of two frames; and one whose frame does
\* not fit its format.
NewChannels ==
    {NewChannel("square", <<>>, None),
     NewChannel("square", TwoNotes, None),
     NewChannel("square", <<>>, Some(<<>>)),
     NewChannel("square", TwoNotes, Frames("square", 1)),
     NewChannel("square", <<>>, Frames("square", 2)),
     NewChannel("triangle", <<>>, Frames("triangle", 1)),
     NewChannel("triangle", <<>>, Frames("triangle", 2)),
     NewChannel("s5b_square", <<>>, Some(<<S5BSentinelFrame>>))}

\* (expansion, expansion_chips) of the metadata a client sets.
ExpansionChoices ==
    {<<5, None>>, <<5, Some(<<"VRC6", "FDS">>)>>, <<197, None>>, <<0, Some(<<"VRC6">>)>>}

MetadataChoices ==
    {Metadata("Mega Man 2", "Takashi Tateishi", "1988 Capcom",
              IF e[1] = 197 THEN "pal" ELSE "ntsc", IF e[1] = 197 THEN 50 ELSE 60,
              e[1], e[2]) : e \in ExpansionChoices}

\* num_frames of the song at an index: 2 for the first song, 1 for the others.
NumFramesOf(index) == IF index = 0 THEN 2 ELSE 1

\* The objects put into the file so far.
Size(data) ==
    Len(data.songs) + Len(Walk(data))
    + (IF data.metadata = DefaultMetadata THEN 0 ELSE 1)

\* Hand-made containers: JSON documents that write does not produce.
CraftChannel(channel_type, ref) ==
    [channel_id |-> 0, channel_type |-> channel_type, channel_name |-> "Ch",
     notes |-> <<>>, raw_data_ref |-> ref]

CraftSong(ch) ==
    [songs |-> << [index |-> 0, name |-> "S", num_frames |-> 1, channels |-> <<ch>>] >>]

CraftRef(sf) == Some([byte_offset |-> 0, byte_length |-> 4, frame_size |-> 4,
                      struct_format |-> sf])

CraftDocs ==
    {<<>>,
     [metadata |-> [expansion |-> 5]],
     CraftSong(CraftChannel("pcm", None)),
     CraftSong(CraftChannel("pcm", CraftRef("pcm"))),
     CraftSong(CraftChannel("pcm", CraftRef("square"))),
     CraftSong(CraftChannel("square", CraftRef("square")))}

HasRef(doc) ==
    \E s \in 1..Len(Get(doc, "songs", <<>>)) :
        \E c \in 1..Len(doc.songs[s].channels) :
            ~IsNone(doc.songs[s].channels[c].raw_data_ref)

CraftBinary(doc) == IF HasRef(doc) THEN <<1, 0, 2, 3>> ELSE <<>>

BadMagic == <<66, 65, 65, 68>>

CraftFile(magic, version, json_len, doc, bin_len, bin) ==
    Cells(magic) \o Cells(PackValue("I", version)) \o Cells(PackValue("I", json_len))
    \o json_dumps(doc) \o Cells(PackValue("I", bin_len)) \o Cells(bin)

\* -------------------------------------------------------------- actions

CodecIdle == [pc |-> "idle", t |-> "", fs |-> <<>>, packed |-> None, unpacked |-> None]

NoResult == [op |-> "none", err |-> "", value |-> None]

\* No note lookup in progress.
LookupIdle == [pc |-> "idle", table |-> "", period |-> 0, note |-> 0, fine_pitch |-> 0]

\* No NSF opened.
NoNsf ==
    [expansion |-> 0, is_pal |-> FALSE, track_count |-> 0, frame_count |-> 0,
     frame_rate |-> 60, title |-> "", artist |-> "", copyright |-> "",
     namco_count |-> 1, voiced |-> 0, ascii_names |-> TRUE]

\* No extraction in progress: no handle, the emulator at no frame, no
\* pre-pass run.
ExIdle ==
    [pc |-> "idle", nsf |-> NoNsf, handle |-> "none", emu_frame |-> 0,
     prepass_frames |-> 0, namco_seen |-> 0, namco_count |-> 1,
     track_idx |-> 0, frame |-> 0, channels |-> <<>>,
     channel_states |-> <<>>, channel_raw_frames |-> <<>>, channel_notes |-> <<>>,
     songs |-> <<>>, err |-> "", value |-> None]

\* What an earlier program left at the output path.
StaleFile == Cells(<<79, 76, 68>>)

\* NotationFile(): default metadata, no songs; at the output path nothing,
\* or a file left there earlier.
Init ==
    /\ heap = <<>>
    /\ nf = NotationFile(DefaultMetadata, <<>>)
    /\ disk \in {None, Some(StaleFile)}
    /\ result = NoResult
    /\ pc = "build"
    /\ codec = CodecIdle
    /\ lookup = LookupIdle
    /\ ex = ExIdle

\* data.metadata = Metadata(...)
SetMetadata ==
    /\ pc = "build"
    /\ nf.metadata = DefaultMetadata
    /\ Size(nf) < MaxObjs
    /\ \E m \in MetadataChoices : nf' = [nf EXCEPT !.metadata = m]
    /\ UNCHANGED <<heap, disk, result, pc, codec, lookup, ex>>

\* data.songs.append(SongData(index, name, num_frames))
AddSong ==
    /\ pc = "build"
    /\ Size(nf) < MaxObjs
    /\ nf' = [nf EXCEPT !.songs =
                 Append(@, SongData(Len(nf.songs), "Song", NumFramesOf(Len(nf.songs)),
                                    DefaultPatternLength, <<>>))]
    /\ UNCHANGED <<heap, disk, result, pc, codec, lookup, ex>>

\* song.channels.append(ChannelData(...)): a new object, in the last song.
AddChannel ==
    /\ pc = "build"
    /\ nf.songs /= <<>>
    /\ Size(nf) < MaxObjs
    /\ \E ch \in NewChannels :
          /\ heap' = Append(heap, ch)
          /\ nf' = [nf EXCEPT !.songs[Len(nf.songs)].channels = Append(@, Len(heap) + 1)]
    /\ UNCHANGED <<disk, result, pc, codec, lookup, ex>>

\* song.channels.append(ch) for a ChannelData object ch already in the file.
AliasChannel ==
    /\ pc = "build"
    /\ nf.songs /= <<>>
    /\ Size(nf) < MaxObjs
    /\ \E o \in DOMAIN heap :
          nf' = [nf EXCEPT !.songs[Len(nf.songs)].channels = Append(@, o)]
    /\ UNCHANGED <<heap, disk, result, pc, codec, lookup, ex>>

\* write(path, nf): the path holds what write put there when write came to
\* open it, and is left alone otherwise.
Write ==
    /\ pc = "build"
    /\ LET w == write(heap, nf)
       IN /\ disk' = IF IsNone(w.file) THEN disk ELSE w.file
          /\ result' = [op |-> "write", err |-> w.err, value |-> None]
          /\ pc' = IF w.err = "" THEN "written" ELSE "write_failed"
    /\ UNCHANGED <<heap, nf, codec, lookup, ex>>

\* A hand-made file is put at the path: a header, a document, a binary chunk
\* and their declared lengths, cut to its first `cut` bytes.
Craft ==
    /\ pc = "build"
    /\ nf = NotationFile(DefaultMetadata, <<>>)
    /\ \E magic \in {MAGIC, BadMagic}, version \in {VERSION, 99}, doc \in CraftDocs :
          \E json_len \in {JsonTextLen(doc), 1, 1000},
             bin_len \in {Len(CraftBinary(doc)), 9999} :
             LET file == CraftFile(magic, version, json_len, doc, bin_len,
                                   CraftBinary(doc))
             IN \E cut \in 0..Len(file) : disk' = Some(SubSeq(file, 1, cut))
    /\ pc' = "crafted"
    /\ UNCHANGED <<heap, nf, result, codec, lookup, ex>>

\* read(path)
Read ==
    /\ pc \in {"written", "crafted"}
    /\ LET r == read(disk[1])
       IN result' = [op |-> "read", err |-> r.err, value |-> r.value]
    /\ pc' = IF pc = "written" THEN "read_back" ELSE "read_crafted"
    /\ UNCHANGED <<heap, nf, disk, codec, lookup, ex>>

Next == SetMetadata \/ AddSong \/ AddChannel \/ AliasChannel \/ Write \/ Craft \/ Read

Spec == Init /\ [][Next]_vars

\* ------------------------------------------------- codec specification

\* pack_frames and unpack_frames applied to a frame sequence of each type.
InitCodec ==
    /\ heap = <<>>
    /\ nf = NotationFile(DefaultMetadata, <<>>)
    /\ disk = None
    /\ result = NoResult
    /\ pc = "codec"
    /\ lookup = LookupIdle
    /\ ex = ExIdle
    /\ codec \in {[pc |-> "frames", t |-> t, fs |-> <<>>, packed |-> None,
                   unpacked |-> None] : t \in ChannelTypes}

CodecAppend ==
    /\ codec.pc = "frames"
    /\ Len(codec.fs) < MaxLen
    /\ \E f \in CodecFrames(codec.t) : codec' = [codec EXCEPT !.fs = Append(@, f)]
    /\ UNCHANGED <<heap, nf, disk, result, pc, lookup, ex>>

CodecPack ==
    /\ codec.pc = "frames"
    /\ codec' = [codec EXCEPT !.pc = "packed",
                              !.packed = Some(pack_frames(codec.t, codec.fs))]
    /\ UNCHANGED <<heap, nf, disk, result, pc, lookup, ex>>

CodecUnpack ==
    /\ codec.pc = "packed"
    /\ codec.packed[1].err = ""
    /\ codec' = [codec EXCEPT !.pc = "unpacked",
                              !.unpacked = Some(unpack_frames(codec.t, codec.packed[1].bytes))]
    /\ UNCHANGED <<heap, nf, disk, result, pc, lookup, ex>>

NextCodec == CodecAppend \/ CodecPack \/ CodecUnpack

SpecCodec == InitCodec /\ [][NextCodec]_vars

\* ---------------------------------------------------------- pitch tables

FREQ_NTSC == 1789773

FREQ_PAL == 1662607

\* Number of notes: indices 1..96 map to C1..B8, index 0 is unused.
NUM_NOTES == 97

\* The tables below tabulate the floating-point expressions of
\* _generate_note_tables at the default tuning of 440 Hz, for i = 1..96.

\* int(clock_ntsc / freq - 0.5) for i = 1..96, tuning 440.
NtscPeriods ==
    <<3419, 3228, 3046, 2875, 2714, 2561, 2418, 2282, 2154, 2033, 1919, 1811,
      1709, 1613, 1523, 1437, 1356, 1280, 1208, 1140, 1076, 1016, 959, 905,
      854, 806, 761, 718, 678, 640, 604, 570, 538, 507, 479, 452, 427, 403,
      380, 359, 338, 319, 301, 284, 268, 253, 239, 225, 213, 201, 189, 179,
      169, 159, 150, 142, 134, 126, 119, 112, 106, 100, 94, 89, 84, 79, 75,
      70, 66, 63, 59, 56, 52, 49, 47, 44, 41, 39, 37, 35, 33, 31, 29, 27, 26,
      24, 23, 21, 20, 19, 18, 17, 16, 15, 14, 13>>

\* int(clock_pal / freq - 0.5) for i = 1..96.
PalPeriods ==
    <<3176, 2998, 2830, 2671, 2521, 2379, 2246, 2120, 2001, 1888, 1782, 1682,
      1588, 1499, 1414, 1335, 1260, 1189, 1122, 1059, 1000, 944, 891, 841,
      793, 749, 707, 667, 629, 594, 561, 529, 499, 471, 445, 420, 396, 374,
      353, 333, 314, 297, 280, 264, 249, 235, 222, 209, 198, 186, 176, 166,
      157, 148, 139, 132, 124, 117, 110, 104, 98, 93, 87, 82, 78, 73, 69, 65,
      62, 58, 55, 52, 49, 46, 43, 41, 38, 36, 34, 32, 30, 29, 27, 25, 24, 22,
      21, 20, 19, 18, 17, 16, 15, 14, 13, 12>>

\* int((clock_ntsc * 16) / (freq * 14) - 0.5) for i = 1..96.
Vrc6SawPeriods ==
    <<3908, 3689, 3482, 3286, 3102, 2928, 2763, 2608, 2462, 2323, 2193, 2070,
      1954, 1844, 1740, 1643, 1550, 1463, 1381, 1304, 1230, 1161, 1096, 1034,
      976, 921, 870, 821, 775, 731, 690, 651, 615, 580, 547, 517, 488, 460,
      434, 410, 387, 365, 345, 325, 307, 290, 273, 258, 243, 230, 217, 204,
      193, 182, 172, 162, 153, 144, 136, 128, 121, 114, 108, 102, 96, 91, 85,
      81, 76, 72, 68, 64, 60, 57, 53, 50, 47, 45, 42, 40, 37, 35, 33, 31, 30,
      28, 26, 25, 23, 22, 21, 19, 18, 17, 16, 15>>

\* int(freq * 65536.0 / (FREQ_NTSC / 16.0) + 0.5) for i = 1..96.
FdsFrequencies ==
    <<19, 20, 22, 23, 24, 26, 27, 29, 30, 32, 34, 36, 38, 41, 43, 46, 48, 51,
      54, 57, 61, 64, 68, 72, 77, 81, 86, 91, 97, 102, 108, 115, 122, 129,
      137, 145, 153, 162, 172, 182, 193, 205, 217, 230, 243, 258, 273, 289,
      307, 325, 344, 365, 386, 409, 434, 459, 487, 516, 546, 579, 613, 650,
      688, 729, 772, 818, 867, 919, 973, 1031, 1092, 1157, 1226, 1299, 1376,
      1458, 1545, 1637, 1734, 1837, 1947, 2062, 2185, 2315, 2452, 2598, 2753,
      2916, 3090, 3274, 3468, 3675, 3893, 4125, 4370, 4630>>

\* int(freq * 262144.0 / 49715.0 + 0.5) for i = 1..12 (octave 0).
Vrc7Base ==
    <<172, 183, 194, 205, 217, 230, 244, 258, 274, 290, 307, 326>>

\* int(freq * 1 * 983040.0 / (FREQ_NTSC / 16.0) / 4) for i = 1..96 (j = 0).
N163Frequencies0 ==
    <<71, 76, 80, 85, 90, 95, 101, 107, 114, 120, 128, 135, 143, 152, 161,
      170, 181, 191, 203, 215, 228, 241, 256, 271, 287, 304, 322, 341, 362,
      383, 406, 430, 456, 483, 512, 542, 574, 608, 645, 683, 724, 767, 812,
      861, 912, 966, 1024, 1085, 1149, 1217, 1290, 1367, 1448, 1534, 1625,
      1722, 1824, 1933, 2048, 2170, 2299, 2435, 2580, 2734, 2896, 3069, 3251,
      3444, 3649, 3866, 4096, 4340, 4598, 4871, 5161, 5468, 5793, 6138, 6503,
      6889, 7299, 7733, 8193, 8680, 9196, 9743, 10322, 10936, 11587, 12276,
      13006, 13779, 14598, 15466, 16386, 17361>>

\* int(freq * 2 * 983040.0 / (FREQ_NTSC / 16.0) / 4) for i = 1..96 (j = 1).
N163Frequencies1 ==
    <<143, 152, 161, 170, 181, 191, 203, 215, 228, 241, 256, 271, 287, 304,
      322, 341, 362, 383, 406, 430, 456, 483, 512, 542, 574, 608, 645, 683,
      724, 767, 812, 861, 912, 966, 1024, 1085, 1149, 1217, 1290, 1367, 1448,
      1534, 1625, 1722, 1824, 1933, 2048, 2170, 2299, 2435, 2580, 2734, 2896,
      3069, 3251, 3444, 3649, 3866, 4096, 4340, 4598, 4871, 5161, 5468, 5793,
      6138, 6503, 6889, 7299, 7733, 8193, 8680, 9196, 9743, 10322, 10936,
      11587, 12276, 13006, 13779, 14598, 15466, 16386, 17361, 18393, 19487,
      20645, 21873, 23174, 24552, 26012, 27559, 29197, 30933, 32773, 34722>>

\* int(freq * 3 * 983040.0 / (FREQ_NTSC / 16.0) / 4) for i = 1..96 (j = 2).
N163Frequencies2 ==
    <<215, 228, 241, 256, 271, 287, 304, 322, 342, 362, 384, 406, 431, 456,
      483, 512, 543, 575, 609, 645, 684, 725, 768, 813, 862, 913, 967, 1025,
      1086, 1150, 1219, 1291, 1368, 1450, 1536, 1627, 1724, 1826, 1935, 2050,
      2172, 2301, 2438, 2583, 2737, 2900, 3072, 3255, 3448, 3653, 3871, 4101,
      4345, 4603, 4877, 5167, 5474, 5800, 6145, 6510, 6897, 7307, 7742, 8202,
      8690, 9207, 9754, 10334, 10949, 11600, 12290, 13020, 13795, 14615,
      15484, 16405, 17380, 18414, 19509, 20669, 21898, 23200, 24580, 26041,
      27590, 29230, 30968, 32810, 34761, 36828, 39018, 41338, 43796, 46400,
      49160, 52083>>

\* int(freq * 4 * 983040.0 / (FREQ_NTSC / 16.0) / 4) for i = 1..96 (j = 3).
N163Frequencies3 ==
    <<287, 304, 322, 341, 362, 383, 406, 430, 456, 483, 512, 542, 574, 608,
      645, 683, 724, 767, 812, 861, 912, 966, 1024, 1085, 1149, 1217, 1290,
      1367, 1448, 1534, 1625, 1722, 1824, 1933, 2048, 2170, 2299, 2435, 2580,
      2734, 2896, 3069, 3251, 3444, 3649, 3866, 4096, 4340, 4598, 4871, 5161,
      5468, 5793, 6138, 6503, 6889, 7299, 7733, 8193, 8680, 9196, 9743, 10322,
      10936, 11587, 12276, 13006, 13779, 14598, 15466, 16386, 17361, 18393,
      19487, 20645, 21873, 23174, 24552, 26012, 27559, 29197, 30933, 32773,
      34722, 36786, 38974, 41291, 43747, 46348, 49104, 52024, 55118, 58395,
      61867, 65546, 69444>>

\* int(freq * 5 * 983040.0 / (FREQ_NTSC / 16.0) / 4) for i = 1..96 (j = 4).
N163Frequencies4 ==
    <<359, 380, 403, 427, 452, 479, 508, 538, 570, 604, 640, 678, 718, 761,
      806, 854, 905, 959, 1016, 1076, 1140, 1208, 1280, 1356, 1436, 1522,
      1612, 1708, 1810, 1918, 2032, 2153, 2281, 2416, 2560, 2712, 2873, 3044,
      3225, 3417, 3620, 3836, 4064, 4306, 4562, 4833, 5120, 5425, 5747, 6089,
      6451, 6835, 7241, 7672, 8128, 8612, 9124, 9666, 10241, 10850, 11495,
      12179, 12903, 13671, 14483, 15345, 16257, 17224, 18248, 19333, 20483,
      21701, 22991, 24358, 25807, 27342, 28967, 30690, 32515, 34448, 36497,
      38667, 40966, 43402, 45983, 48717, 51614, 54684, 57935, 61380, 65030,
      68897, 72994, 77334, 81933, 86805>>

\* int(freq * 6 * 983040.0 / (FREQ_NTSC / 16.0) / 4) for i = 1..96 (j = 5).
N163Frequencies5 ==
    <<431, 456, 483, 512, 543, 575, 609, 645, 684, 725, 768, 813, 862, 913,
      967, 1025, 1086, 1150, 1219, 1291, 1368, 1450, 1536, 1627, 1724, 1826,
      1935, 2050, 2172, 2301, 2438, 2583, 2737, 2900, 3072, 3255, 3448, 3653,
      3871, 4101, 4345, 4603, 4877, 5167, 5474, 5800, 6145, 6510, 6897, 7307,
      7742, 8202, 8690, 9207, 9754, 10334, 10949, 11600, 12290, 13020, 13795,
      14615, 15484, 16405, 17380, 18414, 19509, 20669, 21898, 23200, 24580,
      26041, 27590, 29230, 30968, 32810, 34761, 36828, 39018, 41338, 43796,
      46400, 49160, 52083, 55180, 58461, 61937, 65620, 69522, 73656, 78036,
      82677, 87593, 92801, 98320, 104166>>

\* int(freq * 7 * 983040.0 / (FREQ_NTSC / 16.0) / 4) for i = 1..96 (j = 6).
N163Frequencies6 ==
    <<502, 532, 564, 598, 633, 671, 711, 753, 798, 845, 896, 949, 1005, 1065,
      1129, 1196, 1267, 1342, 1422, 1507, 1596, 1691, 1792, 1898, 2011, 2131,
      2258, 2392, 2534, 2685, 2845, 3014, 3193, 3383, 3584, 3797, 4023, 4262,
      4516, 4784, 5069, 5370, 5690, 6028, 6387, 6766, 7169, 7595, 8047, 8525,
      9032, 9569, 10138, 10741, 11380, 12057, 12774, 13533, 14338, 15190,
      16094, 17051, 18065, 19139, 20277, 21483, 22760, 24114, 25548, 27067,
      28676, 30381, 32188, 34102, 36130, 38278, 40555, 42966, 45521, 48228,
      51096, 54134, 57353, 60763, 64377, 68205, 72260, 76557, 81110, 85933,
      91042, 96456, 102192, 108268, 114706, 121527>>

\* int(freq * 8 * 983040.0 / (FREQ_NTSC / 16.0) / 4) for i = 1..96 (j = 7).
N163Frequencies7 ==
    <<574, 608, 645, 683, 724, 767, 812, 861, 912, 966, 1024, 1085, 1149,
      1217, 1290, 1367, 1448, 1534, 1625, 1722, 1824, 1933, 2048, 2170, 2299,
      2435, 2580, 2734, 2896, 3069, 3251, 3444, 3649, 3866, 4096, 4340, 4598,
      4871, 5161, 5468, 5793, 6138, 6503, 6889, 7299, 7733, 8193, 8680, 9196,
      9743, 10322, 10936, 11587, 12276, 13006, 13779, 14598, 15466, 16386,
      17361, 18393, 19487, 20645, 21873, 23174, 24552, 26012, 27559, 29197,
      30933, 32773, 34722, 36786, 38974, 41291, 43747, 46348, 49104, 52024,
      55118, 58395, 61867, 65546, 69444, 73573, 77948, 82583, 87494, 92697,
      98209, 104049, 110236, 116791, 123735, 131093, 138888>>

Abs(x) == IF x < 0 THEN -x ELSE x

Min(a, b) == IF a <= b THEN a ELSE b

Max(a, b) == IF a >= b THEN a ELSE b

Pow2(k) == CASE k = 0 -> 1 [] k = 1 -> 2 [] k = 2 -> 4 [] k = 3 -> 8 [] k = 4 -> 16
             [] k = 5 -> 32 [] k = 6 -> 64 [] k = 7 -> 128

\* [0] * NUM_NOTES with the entries 1..96 assigned.
FilledTable(values) == [i \in 0..(NUM_NOTES - 1) |-> IF i = 0 THEN 0 ELSE values[i]]

\* As Vrc7Entry, with the octave-0 value copied unshifted to every octave.
Vrc7EntryUnshifted(i) == Vrc7Base[((i - 1) % 12) + 1]

\* tables["vrc7"][i]: the octave-0 value, shifted left by the octave above it.
Vrc7Entry(i) ==
    LET octave == (i - 1) \div 12
        base_note == ((i - 1) % 12) + 1
    IN IF octave = 0 THEN Vrc7Base[i] ELSE Vrc7Base[base_note] * Pow2(octave)

N163Frequencies(j) ==
    CASE j = 0 -> N163Frequencies0 [] j = 1 -> N163Frequencies1
      [] j = 2 -> N163Frequencies2 [] j = 3 -> N163Frequencies3
      [] j = 4 -> N163Frequencies4 [] j = 5 -> N163Frequencies5
      [] j = 6 -> N163Frequencies6 [] j = 7 -> N163Frequencies7

\* tables[f"n163_{j}"][i] = min(0xFFFF, int(...))
N163Entry(j, i) == Min(65535, N163Frequencies(j)[i])

N163Name(j) ==
    CASE j = 0 -> "n163_0" [] j = 1 -> "n163_1" [] j = 2 -> "n163_2"
      [] j = 3 -> "n163_3" [] j = 4 -> "n163_4" [] j = 5 -> "n163_5"
      [] j = 6 -> "n163_6" [] j = 7 -> "n163_7"

N163Index(name) == CHOOSE j \in 0..7 : N163Name(j) = name

TableNames ==
    {"ntsc", "pal", "vrc6_saw", "fds", "vrc7"} \cup {N163Name(j) : j \in 0..7}

\* _generate_note_tables(440): table name -> list of 97 integers.
note_tables ==
    [name \in TableNames |->
        CASE name = "ntsc"     -> FilledTable(NtscPeriods)
          [] name = "pal"      -> FilledTable(PalPeriods)
          [] name = "vrc6_saw" -> FilledTable(Vrc6SawPeriods)
          [] name = "fds"      -> FilledTable(FdsFrequencies)
          [] name = "vrc7"     -> FilledTable([i \in 1..(NUM_NOTES - 1) |-> Vrc7Entry(i)])
          [] OTHER             ->
               FilledTable([i \in 1..(NUM_NOTES - 1) |-> N163Entry(N163Index(name), i)])]

\* As Closer, with a tie taken for the later index.
CloserOrEqual(diff, min_diff) == diff <= min_diff

\* if diff < min_diff
Closer(diff, min_diff) == diff < min_diff

\* One iteration of the loop of get_best_matching_note, on the pair
\* acc = <<best_note, min_diff>>.
BestStep(period, note_table, i, acc) ==
    LET diff == Abs(note_table[i] - period)
    IN IF Closer(diff, acc[2]) THEN <<i, diff>> ELSE acc

\* The iterations lo..hi of the loop, in ascending order of the index. The
\* range is split in halves and the first half is evaluated (its best_note is
\* at least 1) before the second starts, so that the evaluation stays shallow.
RECURSIVE BestScan(_, _, _, _, _)
BestScan(period, note_table, lo, hi, acc) ==
    IF lo > hi THEN acc
    ELSE IF lo = hi THEN BestStep(period, note_table, lo, acc)
    ELSE LET mid == (lo + hi) \div 2
             first == BestScan(period, note_table, lo, mid, acc)
         IN IF first[1] >= 1
            THEN BestScan(period, note_table, mid + 1, hi, first)
            ELSE first

\* As get_best_matching_note, with the scan started one index late.
get_best_matching_note_LateStart(period, note_table) ==
    LET best_note == BestScan(period, note_table, 3, NUM_NOTES - 1,
                              <<1, Abs(note_table[1] - period)>>)[1]
    IN <<best_note, period - note_table[best_note]>>

\* get_best_matching_note(period, note_table) = <<best_note, fine_pitch>>
get_best_matching_note(period, note_table) ==
    LET best_note == BestScan(period, note_table, 2, NUM_NOTES - 1,
                              <<1, Abs(note_table[1] - period)>>)[1]
    IN <<best_note, period - note_table[best_note]>>

\* ---------------------------------------------- note lookup specification

\* Periods looked up in a table: its entries, the midpoints of neighbouring
\* entries, and values below, at and above the range of the registers.
QueryPeriods(name) ==
    {note_tables[name][i] : i \in 1..(NUM_NOTES - 1)}
    \cup {(note_tables[name][i] + note_tables[name][i + 1]) \div 2 : i \in 1..(NUM_NOTES - 2)}
    \cup {-1, 0, 65535, 100000}

InitLookup ==
    /\ heap = <<>>
    /\ nf = NotationFile(DefaultMetadata, <<>>)
    /\ disk = None
    /\ result = NoResult
    /\ pc = "lookup"
    /\ codec = CodecIdle
    /\ ex = ExIdle
    /\ lookup = LookupIdle

\* A caller holds a period and a table of _generate_note_tables.
LookupQuery ==
    /\ lookup.pc = "idle"
    /\ \E name \in TableNames : \E period \in QueryPeriods(name) :
          lookup' = [lookup EXCEPT !.pc = "query", !.table = name, !.period = period]
    /\ UNCHANGED <<heap, nf, disk, result, pc, codec, ex>>

\* note, fine_pitch = get_best_matching_note(period, table)
LookupNearest ==
    /\ lookup.pc = "query"
    /\ LET r == get_best_matching_note(lookup.period, note_tables[lookup.table])
       IN lookup' = [lookup EXCEPT !.pc = "answered", !.note = r[1], !.fine_pitch = r[2]]
    /\ UNCHANGED <<heap, nf, disk, result, pc, codec, ex>>

NextLookup == LookupQuery \/ LookupNearest

SpecLookup == InitLookup /\ [][NextLookup]_vars

\* ------------------------------------------------------------ extraction

\* channel_id -> <<channel_type, channel_name>>
CHANNEL_INFO ==
    [id \in 0..28 |->
        CASE id = 0 -> <<"square", "Square 1">>
          [] id = 1 -> <<"square", "Square 2">>
          [] id = 2 -> <<"triangle", "Triangle">>
          [] id = 3 -> <<"noise", "Noise">>
          [] id = 4 -> <<"dpcm", "DPCM">>
          [] id = 5 -> <<"vrc6_square", "VRC6 Square 1">>
          [] id = 6 -> <<"vrc6_square", "VRC6 Square 2">>
          [] id = 7 -> <<"vrc6_saw", "VRC6 Saw">>
          [] id = 8 -> <<"vrc7_fm", "VRC7 FM 1">>
          [] id = 9 -> <<"vrc7_fm", "VRC7 FM 2">>
          [] id = 10 -> <<"vrc7_fm", "VRC7 FM 3">>
          [] id = 11 -> <<"vrc7_fm", "VRC7 FM 4">>
          [] id = 12 -> <<"vrc7_fm", "VRC7 FM 5">>
          [] id = 13 -> <<"vrc7_fm", "VRC7 FM 6">>
          [] id = 14 -> <<"fds", "FDS">>
          [] id = 15 -> <<"mmc5_square", "MMC5 Square 1">>
          [] id = 16 -> <<"mmc5_square", "MMC5 Square 2">>
          [] id = 17 -> <<"mmc5_dpcm", "MMC5 DPCM">>
          [] id = 18 -> <<"n163_wave", "N163 Wave 1">>
          [] id = 19 -> <<"n163_wave", "N163 Wave 2">>
          [] id = 20 -> <<"n163_wave", "N163 Wave 3">>
          [] id = 21 -> <<"n163_wave", "N163 Wave 4">>
          [] id = 22 -> <<"n163_wave", "N163 Wave 5">>
          [] id = 23 -> <<"n163_wave", "N163 Wave 6">>
          [] id = 24 -> <<"n163_wave", "N163 Wave 7">>
          [] id = 25 -> <<"n163_wave", "N163 Wave 8">>
          [] id = 26 -> <<"s5b_square", "S5B Square 1">>
          [] id = 27 -> <<"s5b_square", "S5B Square 2">>
          [] id = 28 -> <<"s5b_square", "S5B Square 3">>]

STOPPED == 0

TRIGGERED == 1

RELEASED == 2

\* ChannelState()
NewChannelState ==
    [period |-> -1, note |-> 0, pitch |-> 0, volume |-> 0, octave |-> -1,
     state |-> STOPPED, fds_mod_depth |-> 0, fds_mod_speed |-> 0,
     s5b_env_freq |-> 0, fm_trigger |-> FALSE, fm_sustain |-> FALSE,
     instrument |-> None, dmc_active |-> FALSE, dmc_sample_len |-> 0]

note_to_octave(note) == IF note < 1 THEN 0 ELSE (note - 1) \div 12

\* As emit_note, with the event appended twice.
emit_note_Twice(frame, event, note, pitch, volume, duty, instrument, notes) ==
    Append(Append(notes, NoteEvent(frame, event, note, note_to_octave(note), pitch,
                                   volume, duty, instrument)),
           NoteEvent(frame, event, note, note_to_octave(note), pitch, volume, duty,
                     instrument))

\* notes.append(NoteEvent(...)): the list after the call.
emit_note(frame, event, note, pitch, volume, duty, instrument, notes) ==
    Append(notes, NoteEvent(frame, event, note, note_to_octave(note), pitch,
                            volume, duty, instrument))

\* As IsSounding, true in every state.
IsSoundingAlways(cs) == TRUE

\* As IsSounding, true in state STOPPED too.
IsSoundingOrStopped(cs) == cs.state /= RELEASED

\* cs.state == TRIGGERED, the guard of the stop event.
IsSounding(cs) == cs.state = TRIGGERED

\* The channel state and the note list a state-machine update leaves behind.
Updated(cs, notes) == [cs |-> cs, notes |-> notes]

\* As update_generic, with a change of the resolved note while TRIGGERED
\* recorded without an event.
update_generic_NoRetrigger(frame, period, volume, duty, cs, notes, note_table, invalid_period) ==
    LET triggered == volume /= 0 /\ period /= invalid_period
        found == get_best_matching_note(period, note_table)
    IN IF triggered
       THEN IF cs.state /= TRIGGERED
            THEN Updated([cs EXCEPT !.state = TRIGGERED, !.note = found[1],
                                    !.pitch = found[2], !.volume = volume,
                                    !.period = period],
                         emit_note(frame, "trigger", found[1], found[2], volume, duty,
                                   cs.instrument, notes))
            ELSE Updated([cs EXCEPT !.note = found[1], !.volume = volume,
                                    !.pitch = found[2], !.period = period], notes)
       ELSE IF IsSounding(cs)
            THEN Updated([cs EXCEPT !.state = STOPPED],
                         emit_note(frame, "stop", cs.note, cs.pitch, 0, duty,
                                   cs.instrument, notes))
            ELSE Updated(cs, notes)

\* As update_generic, with every period taken for valid.
update_generic_AnyPeriod(frame, period, volume, duty, cs, notes, note_table, invalid_period) ==
    LET triggered == volume /= 0
        found == get_best_matching_note(period, note_table)
    IN IF triggered
       THEN IF cs.state /= TRIGGERED \/ found[1] /= cs.note
            THEN Updated([cs EXCEPT !.state = TRIGGERED, !.note = found[1],
                                    !.pitch = found[2], !.volume = volume,
                                    !.period = period],
                         emit_note(frame, "trigger", found[1], found[2], volume, duty,
                                   cs.instrument, notes))
            ELSE IF volume /= cs.volume \/ period /= cs.period
            THEN Updated([cs EXCEPT !.volume = volume, !.pitch = found[2],
                                    !.period = period], notes)
            ELSE Updated(cs, notes)
       ELSE IF IsSounding(cs)
            THEN Updated([cs EXCEPT !.state = STOPPED],
                         emit_note(frame, "stop", cs.note, cs.pitch, 0, duty,
                                   cs.instrument, notes))
            ELSE Updated(cs, notes)

update_generic(frame, period, volume, duty, cs, notes, note_table, invalid_period) ==
    LET triggered == volume /= 0 /\ period /= invalid_period
        found == get_best_matching_note(period, note_table)
    IN IF triggered
       THEN IF cs.state /= TRIGGERED \/ found[1] /= cs.note
            THEN Updated([cs EXCEPT !.state = TRIGGERED, !.note = found[1],
                                    !.pitch = found[2], !.volume = volume,
                                    !.period = period],
                         emit_note(frame, "trigger", found[1], found[2], volume, duty,
                                   cs.instrument, notes))
            ELSE IF volume /= cs.volume \/ period /= cs.period
            THEN Updated([cs EXCEPT !.volume = volume, !.pitch = found[2],
                                    !.period = period], notes)
            ELSE Updated(cs, notes)
       ELSE IF IsSounding(cs)
            THEN Updated([cs EXCEPT !.state = STOPPED],
                         emit_note(frame, "stop", cs.note, cs.pitch, 0, duty,
                                   cs.instrument, notes))
            ELSE Updated(cs, notes)

\* period_idx ^ 0x0F on Python integers (two's complement of any width).
Xor15(period_idx) == period_idx - 2 * (period_idx % 16) + 15

\* As NoiseNote, without the XOR.
NoiseNoteUnflipped(period_idx) == period_idx + 32

\* note = (period_idx ^ 0x0F) + 32
NoiseNote(period_idx) == Xor15(period_idx) + 32

update_noise(frame, period_idx, volume, mode, cs, notes) ==
    LET triggered == volume /= 0
        found == NoiseNote(period_idx)
    IN IF triggered
       THEN IF cs.state /= TRIGGERED \/ found /= cs.note
            THEN Updated([cs EXCEPT !.state = TRIGGERED, !.note = found, !.pitch = 0,
                                    !.volume = volume, !.period = period_idx],
                         emit_note(frame, "trigger", found, 0, volume, mode,
                                   cs.instrument, notes))
            ELSE IF volume /= cs.volume
            THEN Updated([cs EXCEPT !.volume = volume], notes)
            ELSE Updated(cs, notes)
       ELSE IF IsSounding(cs)
            THEN Updated([cs EXCEPT !.state = STOPPED],
                         emit_note(frame, "stop", cs.note, 0, 0, mode,
                                   cs.instrument, notes))
            ELSE Updated(cs, notes)

\* As DpcmNote, without the clamp to 1..96.
DpcmNoteUnclamped(sample_addr) == ((sample_addr - 49152) \div 64) + 1

\* note = max(1, min(96, ((sample_addr - 0xC000) // 64) + 1))
DpcmNote(sample_addr) == Max(1, Min(96, ((sample_addr - 49152) \div 64) + 1))

\* As update_dpcm, with a sounding channel stopped whenever the frame is not
\* triggered, an active channel with an empty sample included.
update_dpcm_StopOnEmpty(frame, sample_len, sample_addr, pitch, loop, counter, active, cs, notes) ==
    LET dmc_active == active /= 0
        after ==
            IF dmc_active /\ sample_len > 0
            THEN IF cs.state /= TRIGGERED \/ sample_addr /= cs.period
                 THEN Updated([cs EXCEPT !.state = TRIGGERED, !.period = sample_addr,
                                         !.note = DpcmNote(sample_addr),
                                         !.pitch = pitch, !.volume = 15],
                              emit_note(frame, "trigger", DpcmNote(sample_addr), pitch,
                                        15, 0, cs.instrument, notes))
                 ELSE Updated(cs, notes)
            ELSE IF IsSounding(cs)
            THEN Updated([cs EXCEPT !.state = STOPPED],
                         emit_note(frame, "stop", cs.note, cs.pitch, 0, 0,
                                   cs.instrument, notes))
            ELSE Updated(cs, notes)
    IN Updated([after.cs EXCEPT !.dmc_active = dmc_active,
                                !.dmc_sample_len = sample_len], after.notes)

update_dpcm(frame, sample_len, sample_addr, pitch, loop, counter, active, cs, notes) ==
    LET dmc_active == active /= 0
        after ==
            IF dmc_active /\ sample_len > 0
            THEN IF cs.state /= TRIGGERED \/ sample_addr /= cs.period
                 THEN Updated([cs EXCEPT !.state = TRIGGERED, !.period = sample_addr,
                                         !.note = DpcmNote(sample_addr),
                                         !.pitch = pitch, !.volume = 15],
                              emit_note(frame, "trigger", DpcmNote(sample_addr), pitch,
                                        15, 0, cs.instrument, notes))
                 ELSE Updated(cs, notes)
            ELSE IF ~dmc_active /\ IsSounding(cs)
            THEN Updated([cs EXCEPT !.state = STOPPED],
                         emit_note(frame, "stop", cs.note, cs.pitch, 0, 0,
                                   cs.instrument, notes))
            ELSE Updated(cs, notes)
    IN Updated([after.cs EXCEPT !.dmc_active = dmc_active,
                                !.dmc_sample_len = sample_len], after.notes)

\* As FullPeriod, with the octave left out.
FullPeriodNoOctave(period, octave) == period

\* full_period = period * (1 << octave) if octave > 0 else period
FullPeriod(period, octave) == IF octave > 0 THEN period * Pow2(octave) ELSE period

\* _update_fm with one of its guards replaced: "release_any" releases on
\* every frame with sustain and no trigger, "stop_triggered" stops in state
\* TRIGGERED only, "period_only" re-triggers on a period change only,
\* "octave_too" re-triggers on an octave change as well, "release_keeps"
\* emits the release and leaves the state TRIGGERED.
update_fm_Variant(variant, frame, period, volume, patch, octave, trigger, sustain, cs, notes, note_table) ==
    LET prev_trigger == cs.fm_trigger
        cs1 == [cs EXCEPT !.fm_trigger = trigger, !.fm_sustain = sustain]
        found == get_best_matching_note(IF octave > 0 THEN period * Pow2(octave) ELSE period,
                                        note_table)
        releases == IF variant = "release_any" THEN ~trigger /\ sustain
                    ELSE prev_trigger /\ ~trigger /\ sustain
        stops == IF variant = "stop_triggered" THEN cs1.state = TRIGGERED
                 ELSE cs1.state = TRIGGERED \/ cs1.state = RELEASED
        changed == IF variant = "period_only" THEN period /= cs1.period
                   ELSE IF variant = "octave_too"
                   THEN period /= cs1.period \/ Some(patch) /= cs1.instrument
                        \/ octave /= cs1.octave
                   ELSE period /= cs1.period \/ Some(patch) /= cs1.instrument
    IN IF ~prev_trigger /\ trigger
       THEN Updated([cs1 EXCEPT !.state = TRIGGERED, !.note = found[1],
                                !.pitch = found[2], !.volume = volume,
                                !.octave = octave, !.period = period,
                                !.instrument = Some(patch)],
                    emit_note(frame, "trigger", found[1], found[2], volume, 0,
                              Some(patch), notes))
       ELSE IF releases
       THEN Updated([cs1 EXCEPT !.state = IF variant = "release_keeps" THEN @ ELSE RELEASED],
                    emit_note(frame, "release", cs1.note, cs1.pitch, cs1.volume, 0,
                              cs1.instrument, notes))
       ELSE IF ~trigger /\ ~sustain
       THEN IF stops
            THEN Updated([cs1 EXCEPT !.state = STOPPED],
                         emit_note(frame, "stop", cs1.note, cs1.pitch, 0, 0,
                                   cs1.instrument, notes))
            ELSE Updated(cs1, notes)
       ELSE IF trigger /\ cs1.state = TRIGGERED
       THEN IF changed
            THEN Updated([cs1 EXCEPT !.note = found[1], !.pitch = found[2],
                                     !.period = period, !.instrument = Some(patch),
                                     !.volume = volume,
                                     !.octave = IF variant = "octave_too" THEN octave ELSE @],
                         emit_note(frame, "trigger", found[1], found[2], volume, 0,
                                   Some(patch), notes))
            ELSE Updated(cs1, notes)
       ELSE Updated(cs1, notes)

update_fm_ReleaseKeepsState(frame, period, volume, patch, octave, trigger, sustain, trig_change, cs, notes, note_table) ==
    update_fm_Variant("release_keeps", frame, period, volume, patch, octave, trigger,
                      sustain, cs, notes, note_table)

update_fm_ReleaseAny(frame, period, volume, patch, octave, trigger, sustain, trig_change, cs, notes, note_table) ==
    update_fm_Variant("release_any", frame, period, volume, patch, octave, trigger,
                      sustain, cs, notes, note_table)

update_fm_StopTriggeredOnly(frame, period, volume, patch, octave, trigger, sustain, trig_change, cs, notes, note_table) ==
    update_fm_Variant("stop_triggered", frame, period, volume, patch, octave, trigger,
                      sustain, cs, notes, note_table)

update_fm_PeriodOnly(frame, period, volume, patch, octave, trigger, sustain, trig_change, cs, notes, note_table) ==
    update_fm_Variant("period_only", frame, period, volume, patch, octave, trigger,
                      sustain, cs, notes, note_table)

update_fm_OctaveToo(frame, period, volume, patch, octave, trigger, sustain, trig_change, cs, notes, note_table) ==
    update_fm_Variant("octave_too", frame, period, volume, patch, octave, trigger,
                      sustain, cs, notes, note_table)

update_fm(frame, period, volume, patch, octave, trigger, sustain, trig_change, cs, notes, note_table) ==
    LET prev_trigger == cs.fm_trigger
        cs1 == [cs EXCEPT !.fm_trigger = trigger, !.fm_sustain = sustain]
        found == get_best_matching_note(FullPeriod(period, octave), note_table)
    IN IF ~prev_trigger /\ trigger
       THEN Updated([cs1 EXCEPT !.state = TRIGGERED, !.note = found[1],
                                !.pitch = found[2], !.volume = volume,
                                !.octave = octave, !.period = period,
                                !.instrument = Some(patch)],
                    emit_note(frame, "trigger", found[1], found[2], volume, 0,
                              Some(patch), notes))
       ELSE IF prev_trigger /\ ~trigger /\ sustain
       THEN Updated([cs1 EXCEPT !.state = RELEASED],
                    emit_note(frame, "release", cs1.note, cs1.pitch, cs1.volume, 0,
                              cs1.instrument, notes))
       ELSE IF ~trigger /\ ~sustain
       THEN IF IsSounding(cs1) \/ cs1.state = RELEASED
            THEN Updated([cs1 EXCEPT !.state = STOPPED],
                         emit_note(frame, "stop", cs1.note, cs1.pitch, 0, 0,
                                   cs1.instrument, notes))
            ELSE Updated(cs1, notes)
       ELSE IF trigger /\ cs1.state = TRIGGERED
       THEN IF period /= cs1.period \/ Some(patch) /= cs1.instrument
            THEN Updated([cs1 EXCEPT !.note = found[1], !.pitch = found[2],
                                     !.period = period, !.instrument = Some(patch),
                                     !.volume = volume],
                         emit_note(frame, "trigger", found[1], found[2], volume, 0,
                                   Some(patch), notes))
            ELSE Updated(cs1, notes)
       ELSE Updated(cs1, notes)

\* note_tables["pal" if is_pal else "ntsc"]
RegionTable(is_pal) == note_tables[IF is_pal THEN "pal" ELSE "ntsc"]

\* As update_channel, with the FDS volume scaled by the master volume.
update_channel_FdsMasterVolume(channel_id, frame, raw, cs, notes, is_pal) ==
    LET ch_type == CHANNEL_INFO[channel_id][1]
    IN CASE ch_type \in {"square", "mmc5_square", "vrc6_square"} ->
              update_generic(frame, raw[1], raw[2], raw[3], cs, notes,
                             RegionTable(is_pal), 0)
         [] ch_type = "triangle" ->
              update_generic(frame, raw[1], raw[2], 0, cs, notes, RegionTable(is_pal), 0)
         [] ch_type = "noise" ->
              update_noise(frame, raw[1], raw[2], raw[3], cs, notes)
         [] ch_type = "dpcm" ->
              update_dpcm(frame, raw[1], raw[2], raw[3], raw[4], raw[5], raw[6], cs, notes)
         [] ch_type = "vrc6_saw" ->
              update_generic(frame, raw[1], raw[2], 0, cs, notes,
                             note_tables["vrc6_saw"], 0)
         [] ch_type = "vrc7_fm" ->
              update_fm(frame, raw[1], raw[2], raw[3], raw[4], raw[5] /= 0, raw[6] /= 0,
                        raw[7] /= 0, cs, notes, note_tables["vrc7"])
         [] ch_type = "fds" ->
              LET u == update_generic(frame, raw[1], raw[2] * raw[3], 0, cs, notes,
                                      note_tables["fds"], 0)
              IN Updated([u.cs EXCEPT !.fds_mod_depth = raw[5],
                                      !.fds_mod_speed = raw[4]], u.notes)
         [] ch_type = "n163_wave" ->
              update_generic(frame, raw[1], raw[2], 0, cs, notes,
                             note_tables[N163Name(Max(0, Min(7, raw[5] - 1)))], 0)
         [] ch_type = "s5b_square" ->
              LET u == update_generic(frame, raw[1], raw[2], 0, cs, notes,
                                      RegionTable(is_pal), -1)
              IN Updated([u.cs EXCEPT !.s5b_env_freq = raw[6]], u.notes)
         [] ch_type = "mmc5_dpcm" -> Updated(cs, notes)

\* _update_channel(channel, frame, raw, cs, notes, note_tables, is_pal)
update_channel(channel_id, frame, raw, cs, notes, is_pal) ==
    LET ch_type == CHANNEL_INFO[channel_id][1]
    IN CASE ch_type \in {"square", "mmc5_square", "vrc6_square"} ->
              update_generic(frame, raw[1], raw[2], raw[3], cs, notes,
                             RegionTable(is_pal), 0)
         [] ch_type = "triangle" ->
              update_generic(frame, raw[1], raw[2], 0, cs, notes, RegionTable(is_pal), 0)
         [] ch_type = "noise" ->
              update_noise(frame, raw[1], raw[2], raw[3], cs, notes)
         [] ch_type = "dpcm" ->
              update_dpcm(frame, raw[1], raw[2], raw[3], raw[4], raw[5], raw[6], cs, notes)
         [] ch_type = "vrc6_saw" ->
              update_generic(frame, raw[1], raw[2], 0, cs, notes,
                             note_tables["vrc6_saw"], 0)
         [] ch_type = "vrc7_fm" ->
              update_fm(frame, raw[1], raw[2], raw[3], raw[4], raw[5] /= 0, raw[6] /= 0,
                        raw[7] /= 0, cs, notes, note_tables["vrc7"])
         [] ch_type = "fds" ->
              LET u == update_generic(frame, raw[1], raw[2], 0, cs, notes,
                                      note_tables["fds"], 0)
              IN Updated([u.cs EXCEPT !.fds_mod_depth = raw[5],
                                      !.fds_mod_speed = raw[4]], u.notes)
         [] ch_type = "n163_wave" ->
              update_generic(frame, raw[1], raw[2], 0, cs, notes,
                             note_tables[N163Name(Max(0, Min(7, raw[5] - 1)))], 0)
         [] ch_type = "s5b_square" ->
              LET u == update_generic(frame, raw[1], raw[2], 0, cs, notes,
                                      RegionTable(is_pal), -1)
              IN Updated([u.cs EXCEPT !.s5b_env_freq = raw[6]], u.notes)
         [] ch_type = "mmc5_dpcm" -> Updated(cs, notes)

\* ------------------------------------------------- emulator and NSF handle

\* An opened NSF: the attributes extract_notation reads from the handle
\* (expansion, is_pal, track_count, frame_count, frame_rate, the strings),
\* the N163 channel count the tune programs (the value of
\* STATE_N163_NUM_CHANNELS in every frame), the one channel the tune plays
\* on (every other channel stays silent), and whether its track names are
\* ASCII.
Nsf(expansion, is_pal, track_count, namco_count, voiced) ==
    [expansion |-> expansion, is_pal |-> is_pal, track_count |-> track_count,
     frame_count |-> MaxFrames \div track_count,
     frame_rate |-> IF is_pal THEN 50 ELSE 60,
     title |-> "Mega Man 2", artist |-> "Takashi Tateishi", copyright |-> "1988 Capcom",
     namco_count |-> namco_count, voiced |-> voiced, ascii_names |-> TRUE]

NsfFiles ==
    {Nsf(0, FALSE, 1, 1, 0), Nsf(0, TRUE, 1, 1, 1), Nsf(0, FALSE, 2, 1, 0),
     Nsf(0, FALSE, 1, 1, 2), Nsf(0, FALSE, 1, 1, 3), Nsf(0, FALSE, 1, 1, 4),
     Nsf(1, FALSE, 1, 1, 5), Nsf(1, FALSE, 1, 1, 7),
     Nsf(2, FALSE, 1, 1, 8), Nsf(2, FALSE, 2, 1, 9),
     Nsf(4, FALSE, 1, 1, 14),
     Nsf(8, TRUE, 1, 1, 16), Nsf(8, FALSE, 1, 1, 17),
     Nsf(16, FALSE, 1, 2, 19),
     Nsf(32, FALSE, 1, 1, 26),
     Nsf(63, FALSE, 1, 8, 28),
     Nsf(64, FALSE, 1, 1, 0),
     [Nsf(0, FALSE, 2, 1, 1) EXCEPT !.ascii_names = FALSE]}

\* set_track(h, track): resets emulation, positions at track start; the
\* emulator's position is the number of frames run since.
NsfSetTrack(emu_frame) == 0

\* Whether the expansion mask has the N163 bit.
N163Present(expansion) == BitAnd(expansion, 16) /= 0

\* The pre-pass result: the maximum observed value, clamped to [1, 8].
NamcoCount(observed) == Max(1, Min(8, observed))

\* As Rewind, with the emulator left where the pre-pass ended.
RewindSkipped(emu_frame) == emu_frame

\* The emulator re-wound after the pre-pass by calling set_track again.
Rewind(emu_frame) == NsfSetTrack(emu_frame)

\* Whether a channel id is active for an expansion mask and N163 count.
ChannelActive(id, expansion, namco_count) ==
    \/ id \in 0..4
    \/ id \in 5..7 /\ BitAnd(expansion, 1) /= 0
    \/ id \in 8..13 /\ BitAnd(expansion, 2) /= 0
    \/ id = 14 /\ BitAnd(expansion, 4) /= 0
    \/ id \in 15..17 /\ BitAnd(expansion, 8) /= 0
    \/ id \in 18..25 /\ BitAnd(expansion, 16) /= 0 /\ (id - 18) < namco_count
    \/ id \in 26..28 /\ BitAnd(expansion, 32) /= 0

\* make_channels(nsf, track_idx): the ids of the active channels, ascending,
\* for the N163 channel count the pre-pass found.
make_channels(nsf, namco_count) ==
    SelectSeq([k \in 1..29 |-> k - 1],
              LAMBDA id : ChannelActive(id, nsf.expansion, namco_count))

\* The snapshot of a channel whose registers are all zero.
SilentSnapshot(ch_type) == [j \in 1..Len(STRUCT_FORMATS[ch_type]) |-> 0]

\* Register values the emulator returns for the voiced channel in one frame.
VoicedSnapshots(ch_type) ==
    CASE ch_type \in {"square", "mmc5_square", "vrc6_square"} ->
           {<<253, 15, 2>>, <<254, 15, 2>>, <<253, 8, 1>>, <<239, 15, 2>>,
            <<0, 15, 0>>, <<253, 0, 2>>}
      [] ch_type \in {"triangle", "vrc6_saw"} ->
           {<<253, 15>>, <<254, 15>>, <<253, 8>>, <<239, 15>>, <<0, 15>>, <<253, 0>>}
      [] ch_type = "noise" ->
           {<<0, 15, 0>>, <<7, 15, 0>>, <<7, 15, 1>>, <<15, 8, 0>>, <<7, 0, 0>>,
            <<64, 15, 0>>, <<-64, 15, 0>>}
      [] ch_type = "dpcm" ->
           {<<16, 49152, 15, 0, 0, 1>>, <<16, 49216, 15, 0, 0, 1>>,
            <<0, 49152, 15, 0, 0, 1>>, <<16, 49152, 15, 0, 0, 0>>,
            <<16, -1, 14, 0, 0, 1>>, <<16, 65472, 15, 1, 0, 1>>}
      [] ch_type = "vrc7_fm" ->
           {<<172, 10, 1, 2, 1, 0, 1>>, <<182, 10, 1, 2, 1, 0, 0>>,
            <<172, 10, 2, 2, 1, 0, 0>>, <<172, 10, 1, 3, 1, 0, 0>>,
            <<172, 10, 1, 2, 0, 1, 1>>, <<172, 10, 1, 2, 0, 0, -1>>,
            <<172, 10, 1, 0, 1, 0, 1>>}
      [] ch_type = "fds" ->
           {<<1000, 20, 2, 0, 0, 0>>, <<1000, 20, 3, 5, 7, 0>>, <<1200, 20, 2, 0, 0, 0>>,
            <<1000, 0, 2, 0, 0, 0>>, <<0, 20, 2, 0, 0, 0>>}
      [] ch_type = "n163_wave" ->
           {<<5000, 10, 0, 16, 1>>, <<5000, 10, 0, 16, 8>>, <<5200, 10, 0, 16, 1>>,
            <<5000, 0, 0, 16, 1>>, <<0, 10, 0, 16, 0>>, <<-1, 10, 0, 16, 2>>,
            <<1, 10, 0, 16, 1>>, <<1, 10, 0, 16, 2>>}
      [] ch_type = "s5b_square" ->
           {<<253, 15, 0, 0, 0, 0, 0, 0>>, <<-1, 15, 0, 0, 0, 0, 0, 0>>,
            <<65535, 15, 0, 0, 0, 0, 0, 0>>, <<239, 15, 0, 0, 1, 2000, 8, 1>>,
            <<253, 0, 0, 0, 0, 0, 0, 0>>}
      [] ch_type = "mmc5_dpcm" -> {<<0>>}

\* _read_channel_state(nsf.file, channel_id), the emulator returning the
\* registers `voiced` for the voiced channel.
read_channel_state(nsf, channel_id, voiced) ==
    IF channel_id = nsf.voiced THEN voiced
    ELSE SilentSnapshot(CHANNEL_INFO[channel_id][1])

\* track_name of a track the NSF gives no name.
TrackName(track_idx) ==
    CASE track_idx = 0 -> "Track 0" [] track_idx = 1 -> "Track 1"
      [] track_idx = 2 -> "Track 2" [] OTHER -> "Track"

\* As AppendRaw, with a snapshot equal to the previous one left out.
AppendRawChanges(frames, raw) ==
    IF frames /= <<>> /\ frames[Len(frames)] = raw THEN frames ELSE Append(frames, raw)

\* channel_raw_frames[cid].append(raw)
AppendRaw(frames, raw) == Append(frames, raw)

\* ----------------------------------------------- extraction specification

InitExtract ==
    /\ heap = <<>>
    /\ nf = NotationFile(DefaultMetadata, <<>>)
    /\ disk = None
    /\ result = NoResult
    /\ pc = "extract"
    /\ codec = CodecIdle
    /\ lookup = LookupIdle
    /\ ex = ExIdle

\* nsf = NSF(nsf_path, ...); note_tables = _generate_note_tables(tuning);
\* songs = []. The handle is open from here on.
ExtractOpen ==
    /\ ex.pc = "idle"
    /\ \E nsf \in NsfFiles :
          ex' = [ex EXCEPT !.pc = "tracks", !.nsf = nsf, !.handle = "open"]
    /\ UNCHANGED <<heap, nf, disk, result, pc, codec, lookup>>

\* As StartTrack, with the channel states of the previous track kept in the
\* tracks after the first.
StartTrackCarried(e, namco_count) ==
    LET channels == make_channels(e.nsf, namco_count)
        ids == {channels[k] : k \in 1..Len(channels)}
    IN [e EXCEPT !.pc = "frames", !.frame = 0, !.namco_count = namco_count,
                 !.channels = channels,
                 !.channel_states = IF DOMAIN e.channel_states = ids
                                    THEN e.channel_states
                                    ELSE [cid \in ids |-> NewChannelState],
                 !.channel_raw_frames = [cid \in ids |-> <<>>],
                 !.channel_notes = [cid \in ids |-> <<>>]]

\* The rest of the head of the track loop once make_channels has its
\* channel count: the channel list, and fresh states, raw traces and note
\* lists for the channels of the track.
StartTrack(e, namco_count) ==
    LET channels == make_channels(e.nsf, namco_count)
        ids == {channels[k] : k \in 1..Len(channels)}
    IN [e EXCEPT !.pc = "frames", !.frame = 0, !.namco_count = namco_count,
                 !.channels = channels,
                 !.channel_states = [cid \in ids |-> NewChannelState],
                 !.channel_raw_frames = [cid \in ids |-> <<>>],
                 !.channel_notes = [cid \in ids |-> <<>>]]

\* The head of the track loop: NsfSetTrack, then make_channels, which starts
\* the N163 pre-pass when the chip is present and otherwise yields the
\* channel list at once.
ExtractSetTrack ==
    /\ ex.pc = "tracks"
    /\ ex.track_idx < ex.nsf.track_count
    /\ LET e == [ex EXCEPT !.emu_frame = NsfSetTrack(@), !.prepass_frames = 0,
                           !.namco_seen = 0]
       IN ex' = IF N163Present(ex.nsf.expansion)
                THEN [e EXCEPT !.pc = "prepass"]
                ELSE StartTrack(e, NamcoCount(0))
    /\ UNCHANGED <<heap, nf, disk, result, pc, codec, lookup>>

\* One frame of the N163 pre-pass: run_frame, then STATE_N163_NUM_CHANNELS is
\* read from channel 18 and the maximum kept.
PrepassRunFrame ==
    /\ ex.pc = "prepass"
    /\ ex.prepass_frames < ex.nsf.frame_count
    /\ ex' = [ex EXCEPT !.emu_frame = @ + 1, !.prepass_frames = @ + 1,
                        !.namco_seen = Max(@, ex.nsf.namco_count)]
    /\ UNCHANGED <<heap, nf, disk, result, pc, codec, lookup>>

\* The end of the pre-pass: the count is clamped, the emulator re-wound and
\* the channel list built.
PrepassFinish ==
    /\ ex.pc = "prepass"
    /\ ex.prepass_frames = ex.nsf.frame_count
    /\ ex' = StartTrack([ex EXCEPT !.emu_frame = Rewind(@)], NamcoCount(ex.namco_seen))
    /\ UNCHANGED <<heap, nf, disk, result, pc, codec, lookup>>

\* One iteration of the frame loop: NsfRunFrame, then for every channel the
\* snapshot is read, appended to the raw trace and fed to _update_channel.
ExtractRunFrame ==
    /\ ex.pc = "frames"
    /\ ex.frame < ex.nsf.frame_count
    /\ \E voiced \in VoicedSnapshots(CHANNEL_INFO[ex.nsf.voiced][1]) :
          LET ids == DOMAIN ex.channel_states
              raw == [cid \in ids |-> read_channel_state(ex.nsf, cid, voiced)]
              upd == [cid \in ids |->
                         update_channel(cid, ex.frame, raw[cid], ex.channel_states[cid],
                                        ex.channel_notes[cid], ex.nsf.is_pal)]
          IN ex' = [ex EXCEPT
                       !.frame = @ + 1,
                       !.emu_frame = @ + 1,
                       !.channel_raw_frames =
                           [cid \in ids |-> AppendRaw(ex.channel_raw_frames[cid], raw[cid])],
                       !.channel_states = [cid \in ids |-> upd[cid].cs],
                       !.channel_notes = [cid \in ids |-> upd[cid].notes]]
    /\ UNCHANGED <<heap, nf, disk, result, pc, codec, lookup>>

\* The tail of the track loop: the ChannelData list, the track name and the
\* SongData of the track. A track name that is not ASCII makes decode raise,
\* and extract_notation is left with no handler on the way.
ExtractFinishTrack ==
    /\ ex.pc = "frames"
    /\ ex.frame = ex.nsf.frame_count
    /\ LET channel_data_list ==
               [k \in 1..Len(ex.channels) |->
                   ChannelData(ex.channels[k], CHANNEL_INFO[ex.channels[k]][1],
                               CHANNEL_INFO[ex.channels[k]][2],
                               ex.channel_notes[ex.channels[k]], None,
                               Some(ex.channel_raw_frames[ex.channels[k]]))]
       IN ex' = IF ~ex.nsf.ascii_names
                THEN [ex EXCEPT !.pc = "done", !.err = "UnicodeDecodeError"]
                ELSE [ex EXCEPT !.pc = "tracks", !.track_idx = @ + 1,
                                !.songs = Append(@, SongData(ex.track_idx,
                                                             TrackName(ex.track_idx),
                                                             ex.nsf.frame_count,
                                                             DefaultPatternLength,
                                                             channel_data_list))]
    /\ UNCHANGED <<heap, nf, disk, result, pc, codec, lookup>>

\* After the last track: the metadata, and the NotationFile returned.
ExtractReturn ==
    /\ ex.pc = "tracks"
    /\ ex.track_idx = ex.nsf.track_count
    /\ ex' = [ex EXCEPT
                 !.pc = "done",
                 !.value = Some(NotationFile(
                     Metadata(ex.nsf.title, ex.nsf.artist, ex.nsf.copyright,
                              IF ex.nsf.is_pal THEN "pal" ELSE "ntsc", ex.nsf.frame_rate,
                              ex.nsf.expansion,
                              Some(expansion_chip_list(ex.nsf.expansion))),
                     ex.songs))]
    /\ UNCHANGED <<heap, nf, disk, result, pc, codec, lookup>>

NextExtract ==
    \/ ExtractOpen
    \/ ExtractSetTrack
    \/ PrepassRunFrame
    \/ PrepassFinish
    \/ ExtractRunFrame
    \/ ExtractFinishTrack
    \/ ExtractReturn

SpecExtract == InitExtract /\ [][NextExtract]_vars

\* ------------------------------------------------------------ properties

\* The NotationFile `data` by value: each channel id replaced by its object.
Deref(h, data) ==
    [data EXCEPT !.songs =
        [s \in 1..Len(data.songs) |->
            [data.songs[s] EXCEPT !.channels =
                [c \in 1..Len(data.songs[s].channels) |-> h[data.songs[s].channels[c]]]]]]

\* A NotationFile value restricted to its public fields: raw_data_ref, the
\* container's bookkeeping, is left out.
Public(v) ==
    [v EXCEPT !.songs =
        [s \in 1..Len(v.songs) |->
            [v.songs[s] EXCEPT !.channels =
                [c \in 1..Len(v.songs[s].channels) |->
                    [v.songs[s].channels[c] EXCEPT !.raw_data_ref = None]]]]]

\* The chip names of a mask by bit position: bit k-1 selects the k-th name.
ChipNames == <<"VRC6", "VRC7", "FDS", "MMC5", "N163", "S5B">>

DecodedChips(mask) ==
    LET set(k) == (mask \div (2 ^ (k - 1))) % 2 = 1
        idx == SelectSeq(<<1, 2, 3, 4, 5, 6>>, set)
    IN [i \in 1..Len(idx) |-> ChipNames[idx[i]]]

\* The bytes column of the packed-format table.
TableFrameSize(t) ==
    CASE t = "square" -> 4 [] t = "triangle" -> 3 [] t = "noise" -> 3
      [] t = "dpcm" -> 10 [] t = "vrc6_square" -> 4 [] t = "vrc6_saw" -> 3
      [] t = "vrc7_fm" -> 8 [] t = "fds" -> 8 [] t = "mmc5_square" -> 4
      [] t = "mmc5_dpcm" -> 1 [] t = "n163_wave" -> 8 [] t = "s5b_square" -> 10

\* The value range of each field width of the table.
FieldFits(c, v) ==
    CASE c = "H" -> v \in 0..65535 [] c = "B" -> v \in 0..255
      [] c = "b" -> v \in -128..127 [] c = "i" -> TRUE

FramesFit(t, fs) ==
    \A k \in 1..Len(fs) :
        /\ Len(fs[k]) = Len(STRUCT_FORMATS[t])
        /\ \A j \in 1..Len(fs[k]) : FieldFits(STRUCT_FORMATS[t][j], fs[k][j])

\* What a round trip does to a file: an absent expansion_chips is filled in
\* from the mask and an empty raw_frames comes back absent.
RoundTripped(v) ==
    [v EXCEPT
        !.metadata.expansion_chips =
            IF IsNone(@) THEN Some(DecodedChips(v.metadata.expansion)) ELSE @,
        !.songs =
            [s \in 1..Len(v.songs) |->
                [v.songs[s] EXCEPT !.channels =
                    [c \in 1..Len(v.songs[s].channels) |->
                        [v.songs[s].channels[c] EXCEPT
                            !.raw_frames = IF @ = Some(<<>>) THEN None ELSE @]]]]]

C2_PackUnpack ==
    (codec.pc \in {"packed", "unpacked"} /\ FramesFit(codec.t, codec.fs)) =>
        /\ codec.packed[1].err = ""
        /\ Len(codec.packed[1].bytes) = TableFrameSize(codec.t) * Len(codec.fs)
        /\ FRAME_SIZES[codec.t] = TableFrameSize(codec.t)
        /\ codec.pc = "unpacked" =>
              codec.unpacked[1] = [err |-> "", frames |-> codec.fs]

\* C2 witness: two vrc7_fm frames, the first with a negative trigger_change,
\* have been packed and unpacked.
C2_Witness ==
    /\ codec.pc = "unpacked"
    /\ codec.t = "vrc7_fm"
    /\ Len(codec.fs) = 2
    /\ codec.fs[1][7] < 0
    /\ codec.unpacked[1].err = ""

\* The JSON document and the BIN_LEN field of the file on disk, for a file
\* whose header and JSON region are whole.
DiskJsonEnd == 12 + U32At(disk[1], 8)

DiskDoc == json_loads(SubSeq(disk[1], 13, DiskJsonEnd)).doc

DiskBinLen == U32At(disk[1], DiskJsonEnd)

\* The channel entries of a document, songs in order, channels in order.
DocChannels(doc) ==
    Concat([s \in 1..Len(Get(doc, "songs", <<>>)) |-> doc.songs[s].channels])

\* The raw_data_ref objects of a document that are not null, in that order.
DocRefs(doc) ==
    LET has(cd) == ~IsNone(cd.raw_data_ref)
        with == SelectSeq(DocChannels(doc), has)
    IN [k \in 1..Len(with) |-> with[k].raw_data_ref[1]]

NoDuplicates(seq) == \A i, j \in 1..Len(seq) : seq[i] = seq[j] => i = j

\* C3: for a NotationFile whose channels are distinct objects, each with a
\* non-empty raw_frames, write then read returns the same number of songs and
\* channels in the same order, and at every position the channel's raw_frames
\* and its notes (all eight fields) equal the originals.
C3_ChannelsKeepTheirFrames ==
    (/\ pc = "read_back"
     /\ NoDuplicates(Walk(nf))
     /\ \A k \in 1..Len(Walk(nf)) : Truthy(heap[Walk(nf)[k]].raw_frames)) =>
        /\ result.err = ""
        /\ Len(result.value[1].songs) = Len(nf.songs)
        /\ \A s \in 1..Len(nf.songs) :
              /\ Len(result.value[1].songs[s].channels) = Len(nf.songs[s].channels)
              /\ \A c \in 1..Len(nf.songs[s].channels) :
                    LET got == result.value[1].songs[s].channels[c]
                        orig == heap[nf.songs[s].channels[c]]
                    IN /\ got.raw_frames = orig.raw_frames
                       /\ got.notes = orig.notes

\* C3 witness: two songs, each with one channel of its own, both channels with
\* raw frames and one with notes (a null and a non-null instrument), read back.
C3_Witness ==
    /\ pc = "read_back"
    /\ Len(nf.songs) = 2
    /\ \A s \in 1..2 : Len(nf.songs[s].channels) = 1
    /\ NoDuplicates(Walk(nf))
    /\ \A k \in 1..Len(Walk(nf)) : Truthy(heap[Walk(nf)[k]].raw_frames)
    /\ heap[nf.songs[1].channels[1]].raw_frames /= heap[nf.songs[2].channels[1]].raw_frames
    /\ \E o \in DOMAIN heap : Len(heap[o].notes) = 2

\* C4: in every container produced by write, the raw_data_ref regions, over
\* songs in order and channels in declaration order, start at 0, each start
\* where the previous one ends, and their byte_length sums to BIN_LEN.
C4_ContiguousCover ==
    pc = "written" =>
        LET refs == DocRefs(DiskDoc)
        IN /\ refs /= <<>> => refs[1].byte_offset = 0
           /\ \A k \in 2..Len(refs) :
                 refs[k].byte_offset = refs[k - 1].byte_offset + refs[k - 1].byte_length
           /\ SumSeq([k \in 1..Len(refs) |-> refs[k].byte_length]) = DiskBinLen

\* C5 (as stated): every RawDataRef written satisfies byte_length =
\* frame_size * num_frames, num_frames being that of the song holding the
\* channel.
C5_LengthBySongFrames ==
    pc = "written" =>
        \A s \in 1..Len(DiskDoc.songs) :
            \A c \in 1..Len(DiskDoc.songs[s].channels) :
                LET cd == DiskDoc.songs[s].channels[c]
                IN ~IsNone(cd.raw_data_ref) =>
                      cd.raw_data_ref[1].byte_length
                        = cd.raw_data_ref[1].frame_size * DiskDoc.songs[s].num_frames

\* C5 (amended): every RawDataRef written satisfies byte_length =
\* frame_size * len(raw_frames), raw_frames being that of the channel itself.
C5_LengthByChannelFrames ==
    pc = "written" =>
        \A s \in 1..Len(DiskDoc.songs) :
            \A c \in 1..Len(DiskDoc.songs[s].channels) :
                LET cd == DiskDoc.songs[s].channels[c]
                    ch == heap[nf.songs[s].channels[c]]
                IN ~IsNone(cd.raw_data_ref) =>
                      /\ Truthy(ch.raw_frames)
                      /\ cd.raw_data_ref[1].byte_length
                           = cd.raw_data_ref[1].frame_size * Len(ch.raw_frames[1])

\* C5 witness: a written song of num_frames 2 holds a channel with one frame
\* and a raw_data_ref.
C5_Witness ==
    /\ pc = "written"
    /\ \E s \in 1..Len(nf.songs) :
          /\ nf.songs[s].num_frames = 2
          /\ \E c \in 1..Len(nf.songs[s].channels) :
                /\ heap[nf.songs[s].channels[c]].raw_frames /= None
                /\ Len(heap[nf.songs[s].channels[c]].raw_frames[1]) = 1
                /\ ~IsNone(DiskDoc.songs[s].channels[c].raw_data_ref)

\* C6: expansion_chip_list(mask) is the list of chip names whose bit is set,
\* in the order VRC6 (bit 0) .. S5B (bit 5), bits 6 and 7 giving no entry;
\* and after write then read the metadata's expansion_chips is this decoded
\* form of the metadata's expansion.
C6_ChipsAreDecodedMask ==
    /\ \A mask \in 0..255 : expansion_chip_list(mask) = DecodedChips(mask)
    /\ pc = "read_back" =>
          result.value[1].metadata.expansion_chips
            = Some(DecodedChips(result.value[1].metadata.expansion))

\* C7: when the JSON document has no expansion_chips key in its metadata,
\* read recomputes expansion_chips from the mask (expansion 5 reads back as
\* VRC6, FDS).
C7_ChipsRecomputedOnRead ==
    (/\ pc = "read_crafted"
     /\ result.err = ""
     /\ "metadata" \in DOMAIN DiskDoc
     /\ "expansion_chips" \notin DOMAIN DiskDoc.metadata) =>
        result.value[1].metadata.expansion_chips
          = Some(DecodedChips(result.value[1].metadata.expansion))

\* A read of the file on disk has returned or raised.
ReadDone == pc \in {"read_back", "read_crafted"}

\* The header fields of the file on disk, byte by byte.
DiskMagicOk == Bytes(SubSeq(disk[1], 1, 4)) = <<78, 83, 70, 78>>

DiskVersionOk == Bytes(SubSeq(disk[1], 5, 8)) = <<1, 0, 0, 0>>

\* C8: for a file of at least 12 bytes, read fails with InvalidMagic when
\* bytes 0..3 are not "NSFN", and otherwise with UnsupportedVersion when the
\* uint32 at bytes 4..7 is not 1, whatever the length fields and the rest of
\* the file are; the magic error wins when both are wrong.
C8_MagicThenVersion ==
    (ReadDone /\ Len(disk[1]) >= 12) =>
        /\ ~DiskMagicOk => result.err = "InvalidMagicError"
        /\ (DiskMagicOk /\ ~DiskVersionOk) => result.err = "UnsupportedVersionError"

\* C8 witness: a file of at least 12 bytes with a wrong magic, a wrong version
\* and a JSON_LEN that overruns the file has been read, and InvalidMagic raised.
C8_Witness ==
    /\ pc = "read_crafted"
    /\ Len(disk[1]) >= 12
    /\ ~DiskMagicOk
    /\ ~DiskVersionOk
    /\ DiskJsonEnd > Len(disk[1])
    /\ result.err = "InvalidMagicError"

\* The three framing regions against the length of the file on disk.
HeaderOverrun == Len(disk[1]) < 12

JsonOverrun == DiskJsonEnd > Len(disk[1])

BinOverrun ==
    \/ DiskJsonEnd + 4 > Len(disk[1])
    \/ DiskJsonEnd + 4 + DiskBinLen > Len(disk[1])

FramingValid ==
    /\ ~HeaderOverrun /\ DiskMagicOk /\ DiskVersionOk /\ ~JsonOverrun
    /\ json_loads(SubSeq(disk[1], 13, DiskJsonEnd)).err = ""
    /\ ~BinOverrun

\* C10: read fails with UnknownChannelType whenever the JSON document holds a
\* channel whose channel_type is not one of the twelve tags of the packed
\* format table, with or without a raw_data_ref.
C10_UnknownChannelTypeRejected ==
    (/\ ReadDone
     /\ FramingValid
     /\ \E k \in 1..Len(DocChannels(DiskDoc)) :
           DocChannels(DiskDoc)[k].channel_type \notin ChannelTypes) =>
        result.err = "UnknownChannelType"

\* The JSON region of the file on disk lies within the file, behind a valid
\* header, and is not the text of a JSON document.
JsonRegionInvalid ==
    /\ ~HeaderOverrun /\ DiskMagicOk /\ DiskVersionOk /\ ~JsonOverrun
    /\ json_loads(SubSeq(disk[1], 13, DiskJsonEnd)).err /= ""

\* C11: when the JSON region is fully present but is not a valid UTF-8 JSON
\* document, read fails with an error of the container's error taxonomy (the
\* EncodingError of the specification) and returns no NotationFile.
C11_InvalidJsonIsNotationError ==
    (ReadDone /\ JsonRegionInvalid) =>
        /\ result.err \in NotationErrors \cup {"EncodingError"}
        /\ IsNone(result.value)

\* The table and the period of the lookup, and its distance to entry i.
LookupTable == note_tables[lookup.table]

LookupDistance(i) == Abs(LookupTable[i] - lookup.period)

NoteIndices == 1..(NUM_NOTES - 1)

\* C18: for every period and table, nearest returns a note in 1..96 whose
\* entry is at minimal distance from the period over the indices 1..96, the
\* lowest index among those at that distance, and fine_pitch = period -
\* table[note].
C18_NearestIsLowestMinimum ==
    lookup.pc = "answered" =>
        /\ lookup.note \in NoteIndices
        /\ \A i \in NoteIndices : LookupDistance(lookup.note) <= LookupDistance(i)
        /\ \A i \in NoteIndices :
              i < lookup.note => LookupDistance(i) > LookupDistance(lookup.note)
        /\ lookup.fine_pitch = lookup.period - LookupTable[lookup.note]

\* C18 witness: a period at the same non-zero distance from two different
\* entries has been answered with the lower of the two indices.
C18_Witness ==
    /\ lookup.pc = "answered"
    /\ lookup.fine_pitch /= 0
    /\ \E i \in NoteIndices :
          /\ i > lookup.note
          /\ LookupTable[i] /= LookupTable[lookup.note]
          /\ LookupDistance(i) = LookupDistance(lookup.note)

\* The lookup asked for the value of a table entry.
LookupOfEntry == \E i \in NoteIndices : LookupTable[i] = lookup.period

\* The tables whose 96 entries are pairwise different.
UnsaturatedTables ==
    {"ntsc", "pal", "vrc6_saw", "fds", "vrc7", "n163_0", "n163_1", "n163_2"}

\* C19 (as stated): on every pitch table, for every note index i in 1..96,
\* nearest(table[i], table) = (i, 0).
C19_NearestIdempotent ==
    lookup.pc = "answered" =>
        \A i \in NoteIndices :
            LookupTable[i] = lookup.period => (lookup.note = i /\ lookup.fine_pitch = 0)

\* C19 (amended): nearest(table[i], table) = (j, 0) where j is the lowest
\* index whose entry equals table[i]; j = i on the tables ntsc, pal,
\* vrc6_saw, fds, vrc7, n163_0, n163_1, n163_2, and on n163_3..n163_7 for
\* every entry below the cap 0xFFFF.
C19_NearestIdempotentBelowCap ==
    (lookup.pc = "answered" /\ LookupOfEntry) =>
        /\ lookup.fine_pitch = 0
        /\ LookupTable[lookup.note] = lookup.period
        /\ \A i \in NoteIndices : LookupTable[i] = lookup.period => lookup.note <= i
        /\ (lookup.table \in UnsaturatedTables \/ lookup.period < 65535) =>
              \A i \in NoteIndices : LookupTable[i] = lookup.period => lookup.note = i

\* C19 witness: the capped value 0xFFFF of table n163_7, held by the entries
\* 83..96, has been answered with note 83.
C19_Witness ==
    /\ lookup.pc = "answered"
    /\ lookup.table = "n163_7"
    /\ lookup.period = 65535
    /\ LookupTable[96] = 65535
    /\ lookup.note = 83
    /\ lookup.fine_pitch = 0

\* C20: in the vrc7 table every entry above octave 0 is the octave-0 entry
\* of the same pitch class shifted left by the octave:
\* vrc7[i] = vrc7[((i-1) mod 12) + 1] * 2^((i-1) div 12) for i in 13..96.
C20_Vrc7OctaveShift ==
    (lookup.pc /= "idle" /\ lookup.table = "vrc7") =>
        \A i \in 13..(NUM_NOTES - 1) :
            LookupTable[i] = LookupTable[((i - 1) % 12) + 1] * Pow2((i - 1) \div 12)

\* C20 witness: four times the entry of note 1 has been looked up in the vrc7
\* table and found to be exactly note 25, and twice that entry is entry 13.
C20_Witness ==
    /\ lookup.pc = "answered"
    /\ lookup.table = "vrc7"
    /\ lookup.period = 4 * LookupTable[1]
    /\ LookupTable[13] = 2 * LookupTable[1]
    /\ lookup.note = 25
    /\ lookup.fine_pitch = 0

\* The expansion bits of the six supported chips (bits 0..5).
ALL_SUPPORTED_MASK == 63

\* mask & ~ALL_SUPPORTED_MASK, for a mask of one byte.
UnsupportedBits(mask) == mask - (mask % (ALL_SUPPORTED_MASK + 1))

\* C12: extraction fails when the emulator's expansion mask has a bit outside
\* the supported set, and never returns a NotationFile whose
\* metadata.expansion carries an unsupported bit.
C12_UnsupportedExpansionRejected ==
    ex.pc = "done" =>
        /\ UnsupportedBits(ex.nsf.expansion) /= 0 => (ex.err /= "" /\ IsNone(ex.value))
        /\ ~IsNone(ex.value) => UnsupportedBits(ex.value[1].metadata.expansion) = 0

\* Every note list of the extraction: those of the track being run and those
\* of the channels of the finished songs.
NoteLists ==
    {ex.channel_notes[cid] : cid \in DOMAIN ex.channel_notes}
    \cup UNION {{ex.songs[s].channels[c].notes : c \in 1..Len(ex.songs[s].channels)} :
                  s \in 1..Len(ex.songs)}

\* Every event the state machines have emitted.
EmittedEvents == UNION {{ns[k] : k \in 1..Len(ns)} : ns \in NoteLists}

\* C13: each frame's update appends at most one NoteEvent to a channel, and a
\* channel's events are in the order the frames were run: every event's frame
\* is strictly greater than the frame of the event before it, and is a frame
\* that has been run.
C13_OneEventPerFrameInOrder ==
    /\ \A ns \in NoteLists :
          \A k \in 1..Len(ns) :
              /\ ns[k].frame \in 0..(ex.nsf.frame_count - 1)
              /\ k > 1 => ns[k - 1].frame < ns[k].frame
    /\ \A cid \in DOMAIN ex.channel_notes :
          \A k \in 1..Len(ex.channel_notes[cid]) :
              ex.channel_notes[cid][k].frame < ex.frame

\* C13 witness: a channel of a finished track has one event in each of three
\* consecutive frames.
C13_Witness ==
    /\ ex.pc = "done"
    /\ \E ns \in NoteLists :
          /\ Len(ns) = 3
          /\ ns[1].frame = 0 /\ ns[2].frame = 1 /\ ns[3].frame = 2

\* C14: on every channel a stop event directly follows a trigger or a
\* release: it is never the first event of a channel and never follows a
\* stop.
C14_StopFollowsTriggerOrRelease ==
    \A ns \in NoteLists :
        \A k \in 1..Len(ns) :
            ns[k].event = "stop" =>
                (k > 1 /\ ns[k - 1].event \in {"trigger", "release"})

\* C14 witness: a VRC7 channel has emitted trigger, release, stop, and a
\* channel of another family trigger, stop.
C14_Witness ==
    \/ /\ ex.nsf.voiced = 8
       /\ \E ns \in NoteLists :
             /\ Len(ns) = 3
             /\ ns[1].event = "trigger" /\ ns[2].event = "release"
             /\ ns[3].event = "stop"
    \/ /\ ex.nsf.voiced = 4
       /\ \E ns \in NoteLists :
             /\ Len(ns) = 2
             /\ ns[1].event = "trigger" /\ ns[2].event = "stop"

\* C15: every NoteEvent emitted by the channel state machines has
\* octave = (note - 1) div 12.
C15_OctaveDerivedFromNote ==
    \A e \in EmittedEvents : e.octave = (e.note - 1) \div 12

\* C16: every NoteEvent emitted by extraction has its note in 1..96.
C16_NoteInRange ==
    \A e \in EmittedEvents : e.note \in 1..96

\* The channel types whose snapshot starts with period, volume and is run
\* through the generic state machine, and the period each treats as invalid.
GenericTypes ==
    {"square", "mmc5_square", "triangle", "vrc6_square", "vrc6_saw", "fds",
     "n163_wave", "s5b_square"}

InvalidPeriod(ch_type) == IF ch_type = "s5b_square" THEN -1 ELSE 0

\* C17: every channel of an extracted SongData has len(raw_frames) =
\* num_frames; while a track runs, every channel's raw trace holds one
\* snapshot per frame run, and the last snapshot is the one the channel's
\* state machine was fed (a sounding snapshot of a generic channel is the
\* period and volume recorded on the state).
C17_OneSnapshotPerFrame ==
    /\ \A s \in 1..Len(ex.songs) :
          /\ ex.songs[s].num_frames = ex.nsf.frame_count
          /\ Len(ex.songs[s].channels) = Len(make_channels(ex.nsf, ex.namco_count))
          /\ \A c \in 1..Len(ex.songs[s].channels) :
                /\ ~IsNone(ex.songs[s].channels[c].raw_frames)
                /\ Len(ex.songs[s].channels[c].raw_frames[1]) = ex.songs[s].num_frames
    /\ ex.pc = "frames" =>
          \A cid \in DOMAIN ex.channel_raw_frames :
              LET raws == ex.channel_raw_frames[cid]
                  ch_type == CHANNEL_INFO[cid][1]
              IN /\ Len(raws) = ex.frame
                 /\ (/\ raws /= <<>>
                     /\ ch_type \in GenericTypes
                     /\ raws[Len(raws)][2] /= 0
                     /\ raws[Len(raws)][1] /= InvalidPeriod(ch_type)) =>
                       /\ ex.channel_states[cid].period = raws[Len(raws)][1]
                       /\ ex.channel_states[cid].volume = raws[Len(raws)][2]

\* C17 witness: extraction has returned a song of at least two frames in
\* which a channel with events and the silent MMC5 DPCM channel both hold
\* num_frames snapshots.
C17_Witness ==
    /\ ex.pc = "done"
    /\ ~IsNone(ex.value)
    /\ \E s \in 1..Len(ex.value[1].songs) :
          LET song == ex.value[1].songs[s]
          IN /\ song.num_frames >= 2
             /\ \E c \in 1..Len(song.channels) :
                   /\ song.channels[c].notes /= <<>>
                   /\ Len(song.channels[c].raw_frames[1]) = song.num_frames
             /\ \E c \in 1..Len(song.channels) :
                   /\ song.channels[c].channel_type = "mmc5_dpcm"
                   /\ Len(song.channels[c].raw_frames[1]) = song.num_frames

C22_HandleClosedOnExit ==
    ex.pc = "done" => ex.handle = "closed"

\* ------------------------------------------- one frame of one channel

\* A step of the frame loop: the track being run advances by one frame.
FrameRun == ex.pc = "frames" /\ ex'.pc = "frames" /\ ex'.frame = ex.frame + 1

\* The channels of the track being run whose type is one of `types`.
ChannelsOf(types) ==
    {cid \in DOMAIN ex.channel_states : CHANNEL_INFO[cid][1] \in types}

\* Of a channel in a step of the frame loop: its state before and after the
\* frame, the snapshot read in the frame, and the events the frame appended.
Before(cid) == ex.channel_states[cid]

After(cid) == ex'.channel_states[cid]

Snapshot(cid) == ex'.channel_raw_frames[cid][Len(ex'.channel_raw_frames[cid])]

Emitted(cid) ==
    SubSeq(ex'.channel_notes[cid], Len(ex.channel_notes[cid]) + 1,
           Len(ex'.channel_notes[cid]))

\* The pitch table of a generic channel for a snapshot, and the snapshot's
\* duty (channels without a duty register report 0).
FrameTable(ch_type, raw) ==
    CASE ch_type = "vrc6_saw"  -> note_tables["vrc6_saw"]
      [] ch_type = "fds"       -> note_tables["fds"]
      [] ch_type = "n163_wave" -> note_tables[N163Name(Max(0, Min(7, raw[5] - 1)))]
      [] OTHER                 -> RegionTable(ex.nsf.is_pal)

FrameDuty(ch_type, raw) ==
    IF ch_type \in {"square", "mmc5_square", "vrc6_square"} THEN raw[3] ELSE 0

\* The nearest note and fine pitch of a generic channel's snapshot.
Resolved(cid) ==
    get_best_matching_note(Snapshot(cid)[1],
                           FrameTable(CHANNEL_INFO[cid][1], Snapshot(cid)))

\* Whether the frame of a generic channel is triggered.
GenericTriggered(cid) ==
    /\ Snapshot(cid)[2] /= 0
    /\ Snapshot(cid)[1] /= InvalidPeriod(CHANNEL_INFO[cid][1])

\* The events of a channel are exactly one event of a kind.
EmittedOne(cid, event) ==
    /\ Len(Emitted(cid)) = 1
    /\ Emitted(cid)[1].event = event
    /\ Emitted(cid)[1].frame = ex.frame

\* C23: on a generic tonal channel a triggered frame emits a trigger iff the
\* state is not TRIGGERED or the resolved note differs from the recorded
\* one; the event carries the frame's note, fine pitch, volume and duty, the
\* state becomes TRIGGERED, and no stop comes with it.
C23_GenericTrigger ==
    [][FrameRun =>
          \A cid \in ChannelsOf(GenericTypes) :
              GenericTriggered(cid) =>
                  IF Before(cid).state /= TRIGGERED \/ Resolved(cid)[1] /= Before(cid).note
                  THEN /\ EmittedOne(cid, "trigger")
                       /\ Emitted(cid)[1].note = Resolved(cid)[1]
                       /\ Emitted(cid)[1].octave = (Resolved(cid)[1] - 1) \div 12
                       /\ Emitted(cid)[1].pitch = Resolved(cid)[2]
                       /\ Emitted(cid)[1].volume = Snapshot(cid)[2]
                       /\ Emitted(cid)[1].duty_cycle =
                              FrameDuty(CHANNEL_INFO[cid][1], Snapshot(cid))
                       /\ After(cid).state = TRIGGERED
                       /\ After(cid).note = Resolved(cid)[1]
                       /\ After(cid).period = Snapshot(cid)[1]
                       /\ After(cid).volume = Snapshot(cid)[2]
                  ELSE Emitted(cid) = <<>>]_vars

\* C23 witness: a generic channel has two triggers in consecutive frames
\* with different notes: a note change while TRIGGERED.
C23_Witness ==
    /\ ex.pc = "frames"
    /\ \E cid \in ChannelsOf(GenericTypes) :
          LET ns == ex.channel_notes[cid]
          IN /\ Len(ns) >= 2
             /\ ns[Len(ns)].event = "trigger" /\ ns[Len(ns) - 1].event = "trigger"
             /\ ns[Len(ns)].frame = ns[Len(ns) - 1].frame + 1
             /\ ns[Len(ns)].note /= ns[Len(ns) - 1].note
             /\ ex.channel_states[cid].state = TRIGGERED

\* C24: on a generic tonal channel in state TRIGGERED, a triggered frame
\* whose resolved note equals the recorded note emits no event, whatever
\* changed in volume, period or duty; the recorded volume, period and fine
\* pitch become those of the frame and the state stays TRIGGERED.
C24_SilentUpdate ==
    [][FrameRun =>
          \A cid \in ChannelsOf(GenericTypes) :
              (/\ GenericTriggered(cid)
               /\ Before(cid).state = TRIGGERED
               /\ Resolved(cid)[1] = Before(cid).note) =>
                  /\ Emitted(cid) = <<>>
                  /\ After(cid).state = TRIGGERED
                  /\ After(cid).note = Before(cid).note
                  /\ After(cid).volume = Snapshot(cid)[2]
                  /\ After(cid).period = Snapshot(cid)[1]
                  /\ After(cid).pitch = Resolved(cid)[2]]_vars

\* C25: on a generic tonal channel a frame that is not triggered emits a
\* stop iff the state is TRIGGERED; the stop carries the recorded note and
\* fine pitch and volume 0 and the state becomes STOPPED; in state STOPPED
\* such a frame emits nothing and leaves the recorded note, fine pitch,
\* volume and period as they were.
C25_GenericStop ==
    [][FrameRun =>
          \A cid \in ChannelsOf(GenericTypes) :
              ~GenericTriggered(cid) =>
                  IF Before(cid).state = TRIGGERED
                  THEN /\ EmittedOne(cid, "stop")
                       /\ Emitted(cid)[1].note = Before(cid).note
                       /\ Emitted(cid)[1].pitch = Before(cid).pitch
                       /\ Emitted(cid)[1].volume = 0
                       /\ After(cid).state = STOPPED
                  ELSE /\ Emitted(cid) = <<>>
                       /\ After(cid).state = Before(cid).state
                       /\ After(cid).note = Before(cid).note
                       /\ After(cid).pitch = Before(cid).pitch
                       /\ After(cid).volume = Before(cid).volume
                       /\ After(cid).period = Before(cid).period]_vars

\* C25 witness: a generic channel was triggered in frame 0, stopped in frame
\* 1 and ran a further frame in state STOPPED without an event.
C25_Witness ==
    /\ ex.pc = "frames"
    /\ ex.frame = 3
    /\ \E cid \in ChannelsOf(GenericTypes) :
          LET ns == ex.channel_notes[cid]
          IN /\ Len(ns) = 2
             /\ ns[1].event = "trigger" /\ ns[1].frame = 0
             /\ ns[2].event = "stop" /\ ns[2].frame = 1 /\ ns[2].volume = 0
             /\ ns[2].note = ns[1].note /\ ns[2].pitch = ns[1].pitch
             /\ ex.channel_states[cid].state = STOPPED

\* The generic channel types of the APU family: all but s5b_square.
ApuFamilyTypes == GenericTypes \ {"s5b_square"}

\* C26 as stated: on the APU-family generic channels period 0 is a valid
\* period: a frame with volume /= 0 and period = 0 is triggered, so it emits
\* a trigger when the state is not TRIGGERED and never causes a stop.
C26_ZeroPeriodTriggers ==
    [][FrameRun =>
          \A cid \in ChannelsOf(ApuFamilyTypes) :
              (Snapshot(cid)[2] /= 0 /\ Snapshot(cid)[1] = 0) =>
                  /\ Before(cid).state /= TRIGGERED => EmittedOne(cid, "trigger")
                  /\ \A k \in 1..Len(Emitted(cid)) : Emitted(cid)[k].event /= "stop"]_vars

\* C26 amended: on the APU-family generic channels 0 is the invalid period:
\* a frame with period = 0 is not triggered whatever its volume; it emits a
\* stop iff the state is TRIGGERED, and no other event.
C26_ZeroPeriodSilent ==
    [][FrameRun =>
          \A cid \in ChannelsOf(ApuFamilyTypes) :
              Snapshot(cid)[1] = 0 =>
                  IF Before(cid).state = TRIGGERED
                  THEN EmittedOne(cid, "stop") /\ After(cid).state = STOPPED
                  ELSE Emitted(cid) = <<>> /\ After(cid).state = STOPPED]_vars

\* C26 witness: an APU-family channel that was sounding has just run a frame
\* with period 0 and a volume other than 0, and stopped on it.
C26_Witness ==
    /\ ex.pc = "frames"
    /\ \E cid \in ChannelsOf(ApuFamilyTypes) :
          LET ns == ex.channel_notes[cid]
              raws == ex.channel_raw_frames[cid]
          IN /\ Len(ns) >= 2 /\ raws /= <<>>
             /\ raws[Len(raws)][1] = 0 /\ raws[Len(raws)][2] /= 0
             /\ ns[Len(ns)].event = "stop" /\ ns[Len(ns)].frame = ex.frame - 1
             /\ ns[Len(ns) - 1].event = "trigger"

\* The two forms in which the S5B silence sentinel is delivered: -1, and
\* 0xFFFF.
S5BSilenced == {-1, 65535}

\* C27: on an s5b_square channel a frame whose period is the silence
\* sentinel, delivered as -1 or as 0xFFFF, is not triggered whatever its
\* volume: it emits no trigger, and a stop if the state is TRIGGERED; every
\* other period with volume /= 0 is triggered.
C27_S5BSentinelSilent ==
    [][FrameRun =>
          \A cid \in ChannelsOf({"s5b_square"}) :
              IF Snapshot(cid)[1] \in S5BSilenced
              THEN /\ \A k \in 1..Len(Emitted(cid)) : Emitted(cid)[k].event /= "trigger"
                   /\ Before(cid).state = TRIGGERED => EmittedOne(cid, "stop")
                   /\ After(cid).state = STOPPED
              ELSE Snapshot(cid)[2] /= 0 => After(cid).state = TRIGGERED]_vars

\* (period_index XOR 0x0F) + 32 of a snapshot: 47 down to 32 for the period
\* indices 0..15.
NoisePitch(period_idx) ==
    IF period_idx \in 0..15 THEN 47 - period_idx ELSE NoiseNote(period_idx)

\* C28: on the noise channel a frame is triggered iff volume /= 0; a trigger
\* is emitted iff triggered and (state /= TRIGGERED or the note changed),
\* with note = (period_index XOR 0x0F) + 32, fine pitch 0 and the mode in the
\* duty_cycle field; a stop is emitted iff not triggered and state =
\* TRIGGERED; a change of mode alone emits nothing.
C28_NoiseMachine ==
    [][FrameRun =>
          \A cid \in ChannelsOf({"noise"}) :
              IF Snapshot(cid)[2] /= 0
              THEN IF \/ Before(cid).state /= TRIGGERED
                      \/ NoisePitch(Snapshot(cid)[1]) /= Before(cid).note
                   THEN /\ EmittedOne(cid, "trigger")
                        /\ Emitted(cid)[1].note = NoisePitch(Snapshot(cid)[1])
                        /\ Emitted(cid)[1].pitch = 0
                        /\ Emitted(cid)[1].volume = Snapshot(cid)[2]
                        /\ Emitted(cid)[1].duty_cycle = Snapshot(cid)[3]
                        /\ After(cid).state = TRIGGERED
                        /\ After(cid).note = NoisePitch(Snapshot(cid)[1])
                   ELSE Emitted(cid) = <<>> /\ After(cid).state = TRIGGERED
              ELSE IF Before(cid).state = TRIGGERED
                   THEN EmittedOne(cid, "stop") /\ After(cid).state = STOPPED
                   ELSE Emitted(cid) = <<>> /\ After(cid).state = STOPPED]_vars

\* C28 witness: the noise channel triggered note 47 on period index 0, then
\* note 40 on period index 7, and then ran a frame that changed the mode
\* alone without an event.
C28_Witness ==
    /\ ex.pc = "frames"
    /\ \E cid \in ChannelsOf({"noise"}) :
          LET ns == ex.channel_notes[cid]
              raws == ex.channel_raw_frames[cid]
          IN /\ raws = <<<<0, 15, 0>>, <<7, 15, 0>>, <<7, 15, 1>>>>
             /\ Len(ns) = 2
             /\ ns[1].event = "trigger" /\ ns[1].note = 47 /\ ns[1].pitch = 0
             /\ ns[2].event = "trigger" /\ ns[2].note = 40 /\ ns[2].duty_cycle = 0

\* clamp(((sample_addr - 0xC000) div 64) + 1, 1, 96)
DpcmPseudoNote(sample_addr) ==
    LET n == ((sample_addr - 49152) \div 64) + 1
    IN IF n < 1 THEN 1 ELSE IF n > 96 THEN 96 ELSE n

\* Whether a DPCM frame starts a sample: the channel is active with a
\* non-empty sample, and is not TRIGGERED or has a new sample address.
DpcmStarts(cid) ==
    /\ Snapshot(cid)[6] /= 0
    /\ Snapshot(cid)[1] > 0
    /\ Before(cid).state /= TRIGGERED \/ Snapshot(cid)[2] /= Before(cid).period

\* C29: on the DPCM channel a trigger is emitted iff active /= 0 and
\* sample_len > 0 and (state /= TRIGGERED or sample_addr differs from the
\* address recorded at the last trigger); the event has note =
\* clamp(((sample_addr - 0xC000) div 64) + 1, 1, 96), volume 15, and the raw
\* pitch register of the frame in its pitch field.
C29_DpcmTrigger ==
    [][FrameRun =>
          \A cid \in ChannelsOf({"dpcm"}) :
              IF DpcmStarts(cid)
              THEN /\ EmittedOne(cid, "trigger")
                   /\ Emitted(cid)[1].note = DpcmPseudoNote(Snapshot(cid)[2])
                   /\ Emitted(cid)[1].volume = 15
                   /\ Emitted(cid)[1].pitch = Snapshot(cid)[3]
                   /\ After(cid).state = TRIGGERED
                   /\ After(cid).period = Snapshot(cid)[2]
              ELSE /\ \A k \in 1..Len(Emitted(cid)) : Emitted(cid)[k].event /= "trigger"
                   /\ After(cid).period = Before(cid).period]_vars

\* C29 witness: the DPCM channel triggered note 1 at address 0xC000, then
\* note 96 at address 0xFFC0 while TRIGGERED, then note 1 at address -1, each
\* with volume 15 and the pitch register of its frame.
C29_Witness ==
    /\ ex.pc = "frames"
    /\ \E cid \in ChannelsOf({"dpcm"}) :
          LET ns == ex.channel_notes[cid]
          IN /\ ex.channel_raw_frames[cid] =
                    <<<<16, 49152, 15, 0, 0, 1>>, <<16, 65472, 15, 1, 0, 1>>,
                      <<16, -1, 14, 0, 0, 1>>>>
             /\ Len(ns) = 3
             /\ \A k \in 1..3 : ns[k].event = "trigger" /\ ns[k].volume = 15
             /\ ns[1].note = 1 /\ ns[2].note = 96 /\ ns[3].note = 1
             /\ ns[3].pitch = 14

\* C30: on the DPCM channel a stop is emitted exactly on a frame where the
\* state is TRIGGERED and active = 0, with volume 0 and the note and pitch of
\* the last trigger, and the state becomes STOPPED; a frame with active /= 0
\* and sample_len = 0 while TRIGGERED emits no event and leaves the state
\* TRIGGERED.
C30_DpcmStop ==
    [][FrameRun =>
          \A cid \in ChannelsOf({"dpcm"}) :
              /\ IF Before(cid).state = TRIGGERED /\ Snapshot(cid)[6] = 0
                 THEN /\ EmittedOne(cid, "stop")
                      /\ Emitted(cid)[1].volume = 0
                      /\ Emitted(cid)[1].note = Before(cid).note
                      /\ Emitted(cid)[1].pitch = Before(cid).pitch
                      /\ After(cid).state = STOPPED
                 ELSE \A k \in 1..Len(Emitted(cid)) : Emitted(cid)[k].event /= "stop"
              /\ (/\ Before(cid).state = TRIGGERED
                  /\ Snapshot(cid)[6] /= 0
                  /\ Snapshot(cid)[1] = 0) =>
                    Emitted(cid) = <<>> /\ After(cid).state = TRIGGERED]_vars

\* C30 witness: the DPCM channel triggered, ran an active frame with an
\* empty sample without an event, and stopped on the frame that turned it
\* inactive.
C30_Witness ==
    /\ ex.pc = "frames"
    /\ \E cid \in ChannelsOf({"dpcm"}) :
          LET ns == ex.channel_notes[cid]
          IN /\ ex.channel_raw_frames[cid] =
                    <<<<16, 49152, 15, 0, 0, 1>>, <<0, 49152, 15, 0, 0, 1>>,
                      <<16, 49152, 15, 0, 0, 0>>>>
             /\ Len(ns) = 2
             /\ ns[1].event = "trigger" /\ ns[1].frame = 0
             /\ ns[2].event = "stop" /\ ns[2].frame = 2 /\ ns[2].volume = 0
             /\ ns[2].note = ns[1].note /\ ns[2].pitch = ns[1].pitch
             /\ ex.channel_states[cid].state = STOPPED

\* ------------------------------------------------- the VRC7 FM channel

\* Of a vrc7_fm channel in a step of the frame loop: the trigger and sustain
\* flags of the frame, the trigger flag of the frame before it (false on the
\* first frame of the track), and the nearest note and fine pitch of
\* full_period in the vrc7 table.
FmTrigger(cid) == Snapshot(cid)[5] /= 0

FmSustain(cid) == Snapshot(cid)[6] /= 0

FmPrevTrigger(cid) ==
    LET fs == ex.channel_raw_frames[cid]
    IN fs /= <<>> /\ fs[Len(fs)][5] /= 0

FmResolved(cid) ==
    LET period == Snapshot(cid)[1]
        octave == Snapshot(cid)[4]
    IN get_best_matching_note(IF octave > 0 THEN period * (2 ^ octave) ELSE period,
                              note_tables["vrc7"])

\* C31: on a vrc7_fm channel a frame with trigger = true whose previous
\* trigger flag was false (or the first frame of the track) emits exactly
\* one trigger from any prior state; its note and fine pitch are the nearest
\* of full_period (period << octave when octave > 0, period otherwise) in
\* the vrc7 table, its instrument is the frame's patch, and the state
\* becomes TRIGGERED.
C31_FmTrigger ==
    [][FrameRun =>
          \A cid \in ChannelsOf({"vrc7_fm"}) :
              (FmTrigger(cid) /\ ~FmPrevTrigger(cid)) =>
                  /\ EmittedOne(cid, "trigger")
                  /\ Emitted(cid)[1].note = FmResolved(cid)[1]
                  /\ Emitted(cid)[1].pitch = FmResolved(cid)[2]
                  /\ Emitted(cid)[1].volume = Snapshot(cid)[2]
                  /\ Emitted(cid)[1].instrument = Some(Snapshot(cid)[3])
                  /\ After(cid).state = TRIGGERED
                  /\ After(cid).note = FmResolved(cid)[1]
                  /\ After(cid).pitch = FmResolved(cid)[2]]_vars

\* C31 witness: a vrc7_fm channel triggered at octave 2 on the first frame
\* of the track (state STOPPED), was released, and triggered again at
\* octave 0 from state RELEASED, with a different note.
C31_Witness ==
    /\ ex.pc = "frames"
    /\ \E cid \in ChannelsOf({"vrc7_fm"}) :
          LET ns == ex.channel_notes[cid]
          IN /\ ex.channel_raw_frames[cid] =
                    <<<<172, 10, 1, 2, 1, 0, 1>>, <<172, 10, 1, 2, 0, 1, 1>>,
                      <<172, 10, 1, 0, 1, 0, 1>>>>
             /\ Len(ns) = 3
             /\ ns[1].event = "trigger" /\ ns[2].event = "release"
             /\ ns[3].event = "trigger"
             /\ ns[1].note /= ns[3].note
             /\ ns[3].instrument = Some(1)
             /\ ex.channel_states[cid].state = TRIGGERED

\* C32: on a vrc7_fm channel a frame with trigger = false and sustain = true
\* whose previous trigger flag was true emits exactly one release carrying
\* the note, fine pitch, volume and instrument recorded at the last trigger,
\* and the state becomes RELEASED; with the previous flag false the same
\* frame emits nothing.
C32_FmRelease ==
    [][FrameRun =>
          \A cid \in ChannelsOf({"vrc7_fm"}) :
              (~FmTrigger(cid) /\ FmSustain(cid)) =>
                  IF FmPrevTrigger(cid)
                  THEN /\ EmittedOne(cid, "release")
                       /\ Emitted(cid)[1].note = Before(cid).note
                       /\ Emitted(cid)[1].pitch = Before(cid).pitch
                       /\ Emitted(cid)[1].volume = Before(cid).volume
                       /\ Emitted(cid)[1].instrument = Before(cid).instrument
                       /\ After(cid).state = RELEASED
                  ELSE /\ Emitted(cid) = <<>>
                       /\ After(cid).state = Before(cid).state]_vars

\* C32 witness: a vrc7_fm channel triggered, was released on the next frame
\* with the trigger's note, volume and patch, and a second frame with
\* sustain and no trigger emitted nothing.
C32_Witness ==
    /\ ex.pc = "frames"
    /\ \E cid \in ChannelsOf({"vrc7_fm"}) :
          LET ns == ex.channel_notes[cid]
          IN /\ ex.channel_raw_frames[cid] =
                    <<<<172, 10, 2, 2, 1, 0, 0>>, <<172, 10, 1, 2, 0, 1, 1>>,
                      <<172, 10, 1, 2, 0, 1, 1>>>>
             /\ Len(ns) = 2
             /\ ns[1].event = "trigger" /\ ns[2].event = "release"
             /\ ns[2].frame = 1
             /\ ns[2].note = ns[1].note /\ ns[2].pitch = ns[1].pitch
             /\ ns[2].volume = 10 /\ ns[2].instrument = Some(2)
             /\ ex.channel_states[cid].state = RELEASED

\* C33: on a vrc7_fm channel a frame with trigger = false and sustain =
\* false emits a stop (volume 0, recorded note and fine pitch) and sets the
\* state to STOPPED iff the state is TRIGGERED or RELEASED, also when the
\* previous trigger flag was true (no release is emitted then); in state
\* STOPPED the frame emits nothing.
C33_FmStop ==
    [][FrameRun =>
          \A cid \in ChannelsOf({"vrc7_fm"}) :
              (~FmTrigger(cid) /\ ~FmSustain(cid)) =>
                  IF Before(cid).state \in {TRIGGERED, RELEASED}
                  THEN /\ EmittedOne(cid, "stop")
                       /\ Emitted(cid)[1].volume = 0
                       /\ Emitted(cid)[1].note = Before(cid).note
                       /\ Emitted(cid)[1].pitch = Before(cid).pitch
                       /\ After(cid).state = STOPPED
                  ELSE /\ Emitted(cid) = <<>>
                       /\ After(cid).state = STOPPED]_vars

\* C33 witness: a vrc7_fm channel was stopped from state RELEASED, its
\* events being trigger, release, stop.
C33_Witness ==
    /\ ex.pc = "frames"
    /\ \E cid \in ChannelsOf({"vrc7_fm"}) :
          LET ns == ex.channel_notes[cid]
          IN /\ Len(ns) = 3
             /\ ns[1].event = "trigger" /\ ns[2].event = "release"
             /\ ns[3].event = "stop" /\ ns[3].volume = 0
             /\ ns[3].note = ns[1].note /\ ns[3].pitch = ns[1].pitch
             /\ ex.channel_states[cid].state = STOPPED

\* A vrc7_fm channel was stopped straight from state TRIGGERED: a key-off
\* without sustain, with no release, followed by a frame that emits nothing.
C33_KeyOffWitness ==
    /\ ex.pc = "frames"
    /\ \E cid \in ChannelsOf({"vrc7_fm"}) :
          LET ns == ex.channel_notes[cid]
          IN /\ Len(ex.channel_raw_frames[cid]) = 3
             /\ Len(ns) = 2
             /\ ns[1].event = "trigger" /\ ns[1].frame = 0
             /\ ns[2].event = "stop" /\ ns[2].frame = 1

\* C34: on a vrc7_fm channel in state TRIGGERED a frame with trigger = true
\* whose previous trigger flag was also true emits a re-trigger iff the
\* period or the patch differs from the recorded one; the event's note and
\* fine pitch are recomputed from full_period and its instrument is the new
\* patch; with both unchanged no event is emitted.
C34_FmRetrigger ==
    [][FrameRun =>
          \A cid \in ChannelsOf({"vrc7_fm"}) :
              (/\ Before(cid).state = TRIGGERED
               /\ FmTrigger(cid)
               /\ FmPrevTrigger(cid)) =>
                  IF \/ Snapshot(cid)[1] /= Before(cid).period
                     \/ Some(Snapshot(cid)[3]) /= Before(cid).instrument
                  THEN /\ EmittedOne(cid, "trigger")
                       /\ Emitted(cid)[1].note = FmResolved(cid)[1]
                       /\ Emitted(cid)[1].pitch = FmResolved(cid)[2]
                       /\ Emitted(cid)[1].instrument = Some(Snapshot(cid)[3])
                       /\ After(cid).state = TRIGGERED
                       /\ After(cid).period = Snapshot(cid)[1]
                       /\ After(cid).instrument = Some(Snapshot(cid)[3])
                  ELSE Emitted(cid) = <<>>]_vars

\* C34 witness: a vrc7_fm channel held its trigger over three frames and
\* re-triggered twice: on a change of the patch alone, with the same note
\* and the new patch, and on a change of period and patch.
C34_Witness ==
    /\ ex.pc = "frames"
    /\ \E cid \in ChannelsOf({"vrc7_fm"}) :
          LET ns == ex.channel_notes[cid]
          IN /\ ex.channel_raw_frames[cid] =
                    <<<<172, 10, 1, 2, 1, 0, 1>>, <<172, 10, 2, 2, 1, 0, 0>>,
                      <<182, 10, 1, 2, 1, 0, 0>>>>
             /\ Len(ns) = 3
             /\ \A k \in 1..3 : ns[k].event = "trigger" /\ ns[k].frame = k - 1
             /\ ns[2].instrument = Some(2) /\ ns[2].note = ns[1].note
             /\ ns[3].instrument = Some(1)

\* The octave of the frame before the one being run.
FmPrevOctave(cid) == ex.channel_raw_frames[cid][Len(ex.channel_raw_frames[cid])][4]

\* C38: on a vrc7_fm channel in state TRIGGERED with the trigger flag held
\* true, a frame that changes only the octave (period and patch equal to the
\* recorded ones) emits no event and leaves the recorded note and fine pitch
\* unchanged, although full_period = period << octave has another nearest
\* note.
C38_FmOctaveChangeSilent ==
    [][FrameRun =>
          \A cid \in ChannelsOf({"vrc7_fm"}) :
              (/\ Before(cid).state = TRIGGERED
               /\ FmTrigger(cid)
               /\ FmPrevTrigger(cid)
               /\ Snapshot(cid)[1] = Before(cid).period
               /\ Some(Snapshot(cid)[3]) = Before(cid).instrument
               /\ Snapshot(cid)[4] /= FmPrevOctave(cid)) =>
                  /\ Emitted(cid) = <<>>
                  /\ After(cid).state = TRIGGERED
                  /\ After(cid).note = Before(cid).note
                  /\ After(cid).pitch = Before(cid).pitch]_vars

\* C38 witness: a vrc7_fm channel triggered with period 172 at octave 2 and
\* then held the trigger on a frame with octave 3: one event only, and the
\* recorded note is the one of octave 2, not the nearest note of 172 << 3.
C38_Witness ==
    /\ ex.pc = "frames"
    /\ \E cid \in ChannelsOf({"vrc7_fm"}) :
          LET ns == ex.channel_notes[cid]
              cs == ex.channel_states[cid]
          IN /\ ex.channel_raw_frames[cid] =
                    <<<<172, 10, 1, 2, 1, 0, 1>>, <<172, 10, 1, 3, 1, 0, 0>>>>
             /\ Len(ns) = 1
             /\ cs.state = TRIGGERED
             /\ cs.note = ns[1].note
             /\ cs.note = get_best_matching_note(172 * 4, note_tables["vrc7"])[1]
             /\ cs.note /= get_best_matching_note(172 * 8, note_tables["vrc7"])[1]

\* ------------------------------------------------------ the FDS channel

\* Modulation inputs of an FDS frame: master_vol, mod_speed, mod_depth.
FdsModulations == {<<m, s, d>> : m \in {2, 3}, s \in {0, 5}, d \in {0, 7}}

\* Values of (mod_speed, mod_depth) stored on a channel state.
FdsStored == {<<s, d>> : s \in {0, 5}, d \in {0, 7}}

\* An FDS snapshot with the modulation inputs replaced.
FdsWith(raw, mod) == [raw EXCEPT ![3] = mod[1], ![4] = mod[2], ![5] = mod[3]]

\* A channel state without the modulation values stored on it.
FdsVisible(cs) == [cs EXCEPT !.fds_mod_depth = 0, !.fds_mod_speed = 0]

\* C35: the events of the FDS channel do not depend on the modulation
\* inputs. Stated on one frame, from which it follows for runs by induction
\* over the frames: from two states that differ at most in the stored
\* modulation values, two snapshots that agree on period and volume and
\* differ in master_vol, mod_speed or mod_depth leave the same event list
\* and states that again differ at most in the stored modulation values,
\* which are the mod_depth and mod_speed of the frame.
C35_FdsEventsIgnoreModulation ==
    [][FrameRun =>
          \A cid \in ChannelsOf({"fds"}) :
              /\ After(cid).fds_mod_depth = Snapshot(cid)[5]
              /\ After(cid).fds_mod_speed = Snapshot(cid)[4]
              /\ \A mod \in FdsModulations, stored \in FdsStored :
                    LET other == update_channel(
                                     cid, ex.frame, FdsWith(Snapshot(cid), mod),
                                     [Before(cid) EXCEPT !.fds_mod_speed = stored[1],
                                                         !.fds_mod_depth = stored[2]],
                                     ex.channel_notes[cid], ex.nsf.is_pal)
                    IN /\ other.notes = ex'.channel_notes[cid]
                       /\ FdsVisible(other.cs) = FdsVisible(After(cid))
                       /\ other.cs.fds_mod_depth = mod[3]
                       /\ other.cs.fds_mod_speed = mod[2]]_vars

\* C35 witness: the FDS channel ran two frames with the same period and
\* volume and different master_vol, mod_speed and mod_depth: one trigger on
\* the first frame, nothing on the second, and the second frame's mod_depth
\* and mod_speed stored.
C35_Witness ==
    /\ ex.pc = "frames"
    /\ \E cid \in ChannelsOf({"fds"}) :
          LET ns == ex.channel_notes[cid]
          IN /\ ex.channel_raw_frames[cid] =
                    <<<<1000, 20, 2, 0, 0, 0>>, <<1000, 20, 3, 5, 7, 0>>>>
             /\ Len(ns) = 1
             /\ ns[1].event = "trigger" /\ ns[1].frame = 0 /\ ns[1].volume = 20
             /\ ex.channel_states[cid].fds_mod_depth = 7
             /\ ex.channel_states[cid].fds_mod_speed = 5

\* ------------------------------------------- state and last emitted event

\* The state the last event of an event list stands for.
StateOfEvents(ns) ==
    IF ns = <<>> THEN STOPPED
    ELSE CASE ns[Len(ns)].event = "trigger" -> TRIGGERED
           [] ns[Len(ns)].event = "release" -> RELEASED
           [] ns[Len(ns)].event = "stop" -> STOPPED

\* C36: after every frame update on every channel the machine state matches
\* the channel's last emitted event (TRIGGERED iff a trigger, RELEASED iff a
\* release, STOPPED iff no event yet or a stop); on a vrc7_fm channel a true
\* remembered trigger flag implies state TRIGGERED, and a release is only
\* ever emitted directly after a trigger.
C36_StateMatchesLastEvent ==
    \A cid \in DOMAIN ex.channel_states :
        LET cs == ex.channel_states[cid]
            ns == ex.channel_notes[cid]
        IN /\ cs.state \in {STOPPED, TRIGGERED, RELEASED}
           /\ \A k \in 1..Len(ns) : ns[k].event \in {"trigger", "release", "stop"}
           /\ cs.state = StateOfEvents(ns)
           /\ CHANNEL_INFO[cid][1] = "vrc7_fm" =>
                 (cs.fm_trigger => cs.state = TRIGGERED)
           /\ \A k \in 1..Len(ns) :
                 ns[k].event = "release" => k > 1 /\ ns[k - 1].event = "trigger"

\* C36 witness: a vrc7_fm channel ran three frames, a trigger, a release and
\* a frame that emitted nothing, and is RELEASED with the trigger flag
\* false, its last event the release.
C36_Witness ==
    /\ ex.pc = "frames"
    /\ \E cid \in ChannelsOf({"vrc7_fm"}) :
          LET ns == ex.channel_notes[cid]
              cs == ex.channel_states[cid]
          IN /\ Len(ex.channel_raw_frames[cid]) = 3
             /\ Len(ns) = 2
             /\ ns[1].event = "trigger" /\ ns[2].event = "release" /\ ns[2].frame = 1
             /\ cs.state = RELEASED /\ ~cs.fm_trigger

\* ------------------------------------------------------ track boundaries

\* A step that starts the frame loop of a track.
TrackStart == ex.pc \in {"tracks", "prepass"} /\ ex'.pc = "frames"

\* C37: no channel state carries over between tracks: each track starts
\* every channel with a fresh ChannelState (STOPPED, trigger flag false) and
\* an empty event list, so that in every track the first event of every
\* channel is a trigger, and the events carry the frame counted from 0 of
\* their track.
C37_FreshStatePerTrack ==
    [][/\ TrackStart =>
             /\ ex'.frame = 0
             /\ \A cid \in DOMAIN ex'.channel_states :
                   /\ ex'.channel_states[cid] = NewChannelState
                   /\ ex'.channel_states[cid].state = STOPPED
                   /\ ~ex'.channel_states[cid].fm_trigger
                   /\ ex'.channel_notes[cid] = <<>>
       /\ FrameRun =>
             \A cid \in DOMAIN ex'.channel_states :
                 LET ns == ex'.channel_notes[cid]
                 IN /\ ns /= <<>> => ns[1].event = "trigger"
                    /\ \A k \in 1..Len(ns) : ns[k].frame \in 0..ex.frame
                    /\ \A k \in 1..Len(Emitted(cid)) : Emitted(cid)[k].frame = ex.frame
                    /\ ex.frame = Len(ex.channel_raw_frames[cid])]_vars

\* C37 witness: in a tune of two tracks a channel was TRIGGERED at the last
\* frame of the first track, whose events end with that trigger and no stop;
\* the second track read the same registers on its first frame and emitted
\* a trigger at frame 0 again.
C37_Witness ==
    /\ ex.pc = "frames"
    /\ ex.track_idx = 1
    /\ ex.frame = 1
    /\ Len(ex.songs) = 1
    /\ \E k \in 1..Len(ex.songs[1].channels) :
          LET prev == ex.songs[1].channels[k]
              cid == prev.channel_id
              ns == ex.channel_notes[cid]
          IN /\ prev.notes /= <<>>
             /\ prev.notes[Len(prev.notes)].event = "trigger"
             /\ prev.notes[Len(prev.notes)].frame = ex.songs[1].num_frames - 1
             /\ prev.raw_frames[1][Len(prev.raw_frames[1])] = ex.channel_raw_frames[cid][1]
             /\ Len(ns) = 1
             /\ ns[1].event = "trigger" /\ ns[1].frame = 0
             /\ ns[1].note = prev.notes[Len(prev.notes)].note

\* ------------------------------------------- serializing the snapshots

\* The file holds an s5b_square channel with a raw frame whose period is -1.
HoldsS5BSentinel ==
    \E k \in 1..Len(Walk(nf)) :
        LET ch == heap[Walk(nf)[k]]
        IN /\ ch.channel_type = "s5b_square"
           /\ ~IsNone(ch.raw_frames)
           /\ \E j \in 1..Len(ch.raw_frames[1]) : ch.raw_frames[1][j][1] = -1

\* C39: every raw snapshot the extraction state machine accepts can be
\* serialized: for a NotationFile that holds an s5b_square channel whose raw
\* frame has period = -1, the extractor's invalid-period sentinel, write
\* succeeds (and read returns the same raw frames).
C39_SentinelFrameSerializable ==
    (result.op = "write" /\ HoldsS5BSentinel) => result.err = ""

\* ------------------------------------------------------ write and the path

\* A step in which write(path, nf) returns or raises.
WriteRun == pc = "build" /\ pc' \in {"written", "write_failed"}

\* The file written, cut at the lengths its own JSON_LEN and BIN_LEN name.
WrittenJsonLen == U32At(disk'[1], 8)

WrittenBinLen == U32At(disk'[1], 12 + WrittenJsonLen)

\* C40: write computes the binary layout and the JSON document before it
\* opens the output path: when packing a raw frame fails, write raises and
\* the path is as it was before (not created, not truncated, not modified);
\* when write succeeds the file is exactly MAGIC, VERSION, JSON_LEN, the
\* JSON bytes, BIN_LEN and the binary bytes, 16 + JSON_LEN + BIN_LEN bytes
\* in all.
C40_WriteAllOrNothing ==
    [][WriteRun =>
          IF result'.err /= ""
          THEN /\ pc' = "write_failed"
               /\ disk' = disk
          ELSE LET lay == compute_binary_layout(heap, nf)
                   file == disk'[1]
               IN /\ pc' = "written"
                  /\ ~IsNone(disk')
                  /\ Len(file) = 16 + WrittenJsonLen + WrittenBinLen
                  /\ Bytes(SubSeq(file, 1, 4)) = <<78, 83, 70, 78>>
                  /\ Bytes(SubSeq(file, 5, 8)) = <<1, 0, 0, 0>>
                  /\ SubSeq(file, 13, 12 + WrittenJsonLen) =
                         json_dumps(to_json_dict(heap, nf, lay.layout))
                  /\ Bytes(SubSeq(file, 17 + WrittenJsonLen, Len(file))) = lay.blob
                  /\ WrittenBinLen = Len(lay.blob)]_vars

\* C40 witness: write was called on a file with a channel whose frame does
\* not fit its format while an older file lay at the path; write raised
\* struct.error and the older file is still there.
C40_Witness ==
    /\ pc = "write_failed"
    /\ result.op = "write" /\ result.err = "struct.error"
    /\ disk = Some(StaleFile)

\* A write succeeded: the file holds one packed square frame of 4 bytes
\* behind the JSON chunk, and is not the older file.
C40_OverwriteWitness ==
    /\ pc = "written"
    /\ result.err = ""
    /\ disk /= Some(StaleFile)
    /\ Bytes(SubSeq(disk[1], 1, 4)) = MAGIC
    /\ Len(disk[1]) = 16 + U32At(disk[1], 8) + 4
    /\ \E k \in 1..Len(Walk(nf)) : heap[Walk(nf)[k]].raw_frames = Frames("square", 1)

====
